---- MODULE Spec2Model ----
(***************************************************************************)
(* A model of the HUPnP device host (HDeviceHost, HDeviceHostPrivate) and  *)
(* of its configuration classes (HDeviceConfiguration,                     *)
(* HDeviceHostConfiguration), taken from                                   *)
(* src/herqq/hupnp/src/hupnp_core/devicehosting/devicehost/hdevicehost.cpp *)
(*                                                                         *)
(* The event subscription manager of the control point                     *)
(* (hevent_subscriptionmanager_p.cpp), the event notifier of the device    *)
(* host (event_notifier_p.cpp), the device build tasks of the control      *)
(* point and the sequence numbers of event messages are modelled next to   *)
(* it, and so is the HTTP messaging of both (HHttpHandler,                 *)
(* src/herqq/src/upnp/src/core/messaging/http_handler_p.cpp).              *)
(*                                                                         *)
(* The specifications:                                                     *)
(*   SpecCfg       the configuration objects and their setters / clone();  *)
(*   Spec          the life cycle of a device host: init(), quit(),        *)
(*                 doClear(), the announcement timers and the HTTP         *)
(*                 requests in flight;                                     *)
(*   SpecQuit      Spec with a host thread that keeps running and requests *)
(*                 and pool workers that finish;                           *)
(*   SpecSub       the operations of the event subscription manager;       *)
(*   SpecLock      the threads of the event subscription manager;          *)
(*   SpecNotifier  the operations of the event notifier and its shutdown;  *)
(*   SpecEvent     the bodies and the delivery of the event messages;      *)
(*   SpecInitialNotify  the attempts of one initial notify;                *)
(*   SpecSend      HHttpHandler: framing and writing a message;            *)
(*   SpecReceive   HHttpHandler: reading a message, and its shutdown;      *)
(*   SpecAction    HHttpHandler: the response to a failed action;          *)
(*   SpecDevice    HDevice: the accessors and the disposal of a device;    *)
(*   SpecBuild     device build tasks and device storages;                 *)
(*   SpecSeq       the SEQ values of the messages of one subscription.     *)
(***************************************************************************)
EXTENDS Integers, Sequences, FiniteSets, TLC

(***************************************************************************)
(* Bounds of the model.                                                    *)
(***************************************************************************)
\* Longest device-configuration collection built under SpecCfg.
MaxCollection == 1
\* Largest number of root devices a host is initialized with under Spec.
MaxRoots == 1
\* Largest number of HTTP clients served at once.
MaxClients == 1
\* Largest number of busy pool workers.
MaxWorkers == 1
\* Longest time (in seconds) one round of sending announcements takes.
MaxSendSecs == 1

\* Depth of the device tree the subscription manager works on.
MaxDevices == 2
\* Subscribers the event notifier creates.
MaxSubscribers == 2
\* Device build tasks the control point starts.
MaxTasks == 2
\* Device configurations the device host is given under SpecBuild.
MaxConfigs == 2
\* Event messages sent after the starting counter under SpecSeq.
MaxNotifies == 4
\* Subscribers created under SpecEvent.
MaxEventSubscribers == 1
\* Longest message body handed to HHttpHandler::send.
MaxBody == 3
\* Most chunks, and most bytes under Content-Length, of a received body.
MaxChunks == 2
\* Error codes of a vendor above the ones of HAction.
MaxVendorCodes == 1

(***************************************************************************)
(* Program constants.                                                      *)
(***************************************************************************)
\* HDeviceConfigurationPrivate(): m_cacheControlMaxAgeInSecs(1800)
DefaultCacheControlMaxAge == 1800
\* setCacheControlMaxAge: if (maxAgeInSecs < 5)
MinCacheControlMaxAge == 5
\* setCacheControlMaxAge: 60*60*24, "a day"
MaxCacheControlMaxAge == 60 * 60 * 24
\* HDeviceHostConfigurationPrivate(): m_individualAdvertisementCount(2)
DefaultAdvertisementCount == 2
\* The largest argument value the model feeds to a quint32 parameter.  A
\* quint32 goes up to 4294967295; the model checker's integers end here.
BigUInt == 2147483647

(***************************************************************************)
(* HDeviceConfiguration                                                    *)
(*   a device configuration is a record                                    *)
(*     path     TRUE iff m_pathToDeviceDescriptor is not empty             *)
(*     creator  TRUE iff m_deviceCreator is set                            *)
(*     maxAge   m_cacheControlMaxAgeInSecs                                 *)
(***************************************************************************)
NewDeviceConfiguration ==
    [path |-> FALSE, creator |-> FALSE, maxAge |-> DefaultCacheControlMaxAge]

\* The mutated setter: the upper limit is not enforced.
setCacheControlMaxAge_NoUpper(c, maxAgeInSecs) ==
    [c EXCEPT !.maxAge = IF maxAgeInSecs < MinCacheControlMaxAge
                         THEN MinCacheControlMaxAge
                         ELSE maxAgeInSecs]

setCacheControlMaxAge(c, maxAgeInSecs) ==
    [c EXCEPT !.maxAge =
        IF maxAgeInSecs < MinCacheControlMaxAge
        THEN MinCacheControlMaxAge
        ELSE IF maxAgeInSecs > MaxCacheControlMaxAge
             THEN MaxCacheControlMaxAge
             ELSE maxAgeInSecs]

cacheControlMaxAge(c) == c.maxAge

\* exists: QFile::exists(pathToDeviceDescriptor)
setPathToDeviceDescription(c, exists) ==
    IF exists THEN [c EXCEPT !.path = TRUE] ELSE c

setDeviceCreator(c, set) == [c EXCEPT !.creator = set]

isValid(c) == c.path /\ c.creator

\* HDeviceConfiguration::clone: *newClone->h_ptr = *h_ptr
cloneDeviceConfiguration(c) ==
    [path |-> c.path, creator |-> c.creator, maxAge |-> c.maxAge]

(***************************************************************************)
(* HDeviceHostConfiguration                                                *)
(*   a host configuration is a record                                      *)
(*     collection  m_collection, a sequence of device configurations       *)
(*     adv         m_individualAdvertisementCount                          *)
(***************************************************************************)
NewDeviceHostConfiguration ==
    [collection |-> <<>>, adv |-> DefaultAdvertisementCount]

add(h, c) ==
    IF isValid(c)
    THEN [h EXCEPT !.collection = Append(@, cloneDeviceConfiguration(c))]
    ELSE h

setIndividualAdvertisementCount(h, arg) == [h EXCEPT !.adv = arg]

individualAdvertisementCount(h) == h.adv

deviceConfigurations(h) == h.collection

isEmpty(h) == h.collection = <<>>

RECURSIVE addAll(_, _)
addAll(h, cs) ==
    IF cs = <<>> THEN h ELSE addAll(add(h, Head(cs)), Tail(cs))

\* HDeviceHostConfiguration::clone: add() every element, copy the count.
cloneHostConfiguration(h) ==
    [addAll(NewDeviceHostConfiguration, h.collection) EXCEPT !.adv = h.adv]

(***************************************************************************)
(* State.                                                                  *)
(***************************************************************************)
VARIABLES
    \* -- the configuration objects a user builds (SpecCfg) --
    dc,             \* an HDeviceConfiguration
    lastMaxAgeArg,  \* argument of the last setCacheControlMaxAge on dc, -1: none
    hc,             \* an HDeviceHostConfiguration
    hcClone         \* <<>> or <<the object the last hc.clone() returned>>

cfgVars == <<dc, lastMaxAgeArg, hc, hcClone>>

(***************************************************************************)
(* The configuration objects: SpecCfg.                                     *)
(***************************************************************************)
\* Arguments given to setCacheControlMaxAge(quint32).
MaxAgeArgs == {0, 4, 5, 6, 86400, 86401, BigUInt}
\* Arguments given to setIndividualAdvertisementCount(quint32).
AdvCountArgs == {0, 1, 5, 6, BigUInt}

CfgInit ==
    /\ dc = NewDeviceConfiguration
    /\ lastMaxAgeArg = -1
    /\ hc = NewDeviceHostConfiguration
    /\ hcClone = <<>>

\* HDeviceConfiguration::HDeviceConfiguration()
CfgNewDevice ==
    /\ dc' = NewDeviceConfiguration
    /\ lastMaxAgeArg' = -1
    /\ UNCHANGED <<hc, hcClone>>

CfgSetCacheControlMaxAge ==
    \E n \in MaxAgeArgs :
        /\ dc' = setCacheControlMaxAge(dc, n)
        /\ lastMaxAgeArg' = n
        /\ UNCHANGED <<hc, hcClone>>

CfgSetPathToDeviceDescription ==
    \E exists \in BOOLEAN :
        /\ dc' = setPathToDeviceDescription(dc, exists)
        /\ UNCHANGED <<lastMaxAgeArg, hc, hcClone>>

CfgSetDeviceCreator ==
    \E set \in BOOLEAN :
        /\ dc' = setDeviceCreator(dc, set)
        /\ UNCHANGED <<lastMaxAgeArg, hc, hcClone>>

CfgAdd ==
    /\ Len(hc.collection) < MaxCollection
    /\ hc' = add(hc, dc)
    /\ UNCHANGED <<dc, lastMaxAgeArg, hcClone>>

CfgSetIndividualAdvertisementCount ==
    \E n \in AdvCountArgs :
        /\ hc' = setIndividualAdvertisementCount(hc, n)
        /\ UNCHANGED <<dc, lastMaxAgeArg, hcClone>>

CfgClone ==
    /\ hcClone' = <<cloneHostConfiguration(hc)>>
    /\ UNCHANGED <<dc, lastMaxAgeArg, hc>>

(***************************************************************************)
(* The device host: state.                                                 *)
(***************************************************************************)
VARIABLES
    state,            \* HAbstractHostPrivate::state()
    pc,               \* where the host's thread is inside init() / quit()
    call,             \* the API call running or last run: none, init, quit
    rc,               \* init(): the local rc, its return value once returned
    error,            \* init(): the local QString error
    errorString,      \* the caller's *errorString
    failedStep,       \* the step at which the running / last init() failed
    m_initParams,     \* <<>> (null) or <<the cloned configuration>>
    m_http,           \* null, live, shutdown
    m_httpServer,     \* null, created, listening, closed
    m_ssdp,           \* null, unbound, bound
    m_eventNotifier,  \* null, live, shutdown
    m_presenceAnnouncer, \* <<>> (null) or <<advertisement count>>
    roots,            \* m_deviceStorage: the root device controllers
    activeClients,    \* m_httpServer->activeClientCount()
    activeThreads,    \* m_threadPool->activeThreadCount()
    idx,              \* loop counter of the running step
    cur,              \* root device whose statusTimeout is being handled
    sendLeft,         \* seconds the running send may still take
    arg,              \* <<>> or <<the configuration passed to init()>>
    log               \* what the running / last call did, in order

hostVars == <<state, pc, call, rc, error, errorString, failedStep,
              m_initParams, m_http, m_httpServer, m_ssdp, m_eventNotifier,
              m_presenceAnnouncer, roots, activeClients, activeThreads,
              idx, cur, sendLeft, arg, log>>

\* The content of the caller's string before init() writes to it.
CallerString == "<caller's>"

\* An entry of log: what was done, to which root device (0: none), and
\* whether the SSDP socket was bound at that moment.
Ev(e, d) == [e |-> e, d |-> d, open |-> m_ssdp = "bound"]

HostInit ==
    /\ state = "Uninitialized"
    /\ pc = "idle"
    /\ call = "none"
    /\ rc = "none"
    /\ error = ""
    /\ errorString = CallerString
    /\ failedStep = "none"
    /\ m_initParams = <<>>
    /\ m_http = "null"
    /\ m_httpServer = "null"
    /\ m_ssdp = "null"
    /\ m_eventNotifier = "null"
    /\ m_presenceAnnouncer = <<>>
    /\ roots = <<>>
    /\ activeClients = 0
    /\ activeThreads = 0
    /\ idx = 0
    /\ cur = 0
    /\ sendLeft = 0
    /\ arg = <<>>
    /\ log = <<>>

(***************************************************************************)
(* The configurations a host is initialized with under Spec.               *)
(***************************************************************************)
\* Arguments given to setCacheControlMaxAge for a hosted device.
HostMaxAgeArgs == {3, 6}
\* Arguments given to setIndividualAdvertisementCount for a host.
HostAdvCountArgs == {0, 2}

HostDeviceConfigurations ==
    { setCacheControlMaxAge(
          setDeviceCreator(
              setPathToDeviceDescription(NewDeviceConfiguration, TRUE), TRUE),
          n) : n \in HostMaxAgeArgs }

HostConfigurations ==
    { setIndividualAdvertisementCount(addAll(NewDeviceHostConfiguration, cs), a) :
        cs \in UNION { [1..k -> HostDeviceConfigurations] : k \in 0..MaxRoots },
        a \in HostAdvCountArgs }

\* The configurations init() is called with.  An Initialized host returns
\* before it reads its argument, so two arguments stand for all there.
InitArguments ==
    IF state = "Initialized"
    THEN { h \in HostConfigurations :
             Len(h.collection) <= 1 /\ h.adv = DefaultAdvertisementCount
             /\ \A i \in 1..Len(h.collection) :
                    h.collection[i].maxAge = MinCacheControlMaxAge }
    ELSE HostConfigurations

(***************************************************************************)
(* Root devices.  A root device controller is a record                     *)
(*     maxAge   cacheControlMaxAge() of its configuration                  *)
(*     timeout  m_deviceTimeoutInSecs, the period of its status notifier   *)
(*     timer    seconds until statusTimeout is due, -1: notifier stopped   *)
(*     since    seconds since the last ssdp:alive for the device, -1: none *)
(***************************************************************************)
\* The mutated period: the whole max-age rather than half of it.
deviceTimeoutInSecs_WholeAge(deviceInitParams) ==
    cacheControlMaxAge(deviceInitParams)

\* createRootDevices: creatorParams.m_deviceTimeoutInSecs
deviceTimeoutInSecs(deviceInitParams) ==
    cacheControlMaxAge(deviceInitParams) \div 2

createRootDevice(deviceInitParams) ==
    [maxAge  |-> cacheControlMaxAge(deviceInitParams),
     timeout |-> deviceTimeoutInSecs(deviceInitParams),
     timer   |-> -1,
     since   |-> -1]

\* HDeviceController::startStatusNotifier: (re)start the single-shot timer.
startStatusNotifier(r) == [r EXCEPT !.timer = r.timeout]

\* HDeviceController::stopStatusNotifier
stopStatusNotifier(r) == [r EXCEPT !.timer = -1, !.since = -1]

\* An ssdp:alive goes out for the device.
aliveSent(r) == [r EXCEPT !.since = 0]

\* One second passes.  The time since the last ssdp:alive is measured up to
\* the max-age of the device, when the caches of the control points expire.
secondPassed(r) ==
    [r EXCEPT !.timer = IF @ > 0 THEN @ - 1 ELSE @,
              !.since = IF @ >= 0 /\ @ < r.maxAge THEN @ + 1 ELSE @]

EvAll(e) == [i \in 1..Len(roots) |-> Ev(e, i)]

NoTimerDue == \A i \in 1..Len(roots) : roots[i].timer # 0

(***************************************************************************)
(* HDeviceHost::init                                                       *)
(***************************************************************************)
\* What the doInit() hook of a derived class may return.
DoInitCodes == {"Success", "UndefinedFailure", "InvalidConfiguration"}

\* What creating one root device ends with: the device, or an exception.
CreateOutcomes ==
    {"ok", "InvalidDeviceDescription", "InvalidServiceDescription", "HException"}

\* The mutated handlers: every exception is taken by catch(HException&).
catchCode_AllUndefined(ex) == "UndefinedFailure"

\* The catch clauses of init(): exception class -> return code.
catchCode(ex) ==
    CASE ex = "InvalidDeviceDescription"  -> "InvalidDeviceDescription"
      [] ex = "InvalidServiceDescription" -> "InvalidServiceDescription"
      [] ex = "HSocketException"          -> "CommunicationsError"
      [] OTHER                            -> "UndefinedFailure"

\* ex.reason()
reason(ex) ==
    IF ex = "HSocketException" THEN "Failed to initialize SSDP."
    ELSE "reason of " \o ex

\* A user calls init(initParams, &errorString).
CallInit ==
    /\ pc = "idle"
    /\ \E cfg \in InitArguments : arg' = <<cfg>>
    /\ pc' = "init_called"
    /\ call' = "init"
    /\ rc' = "pending"
    /\ errorString' = CallerString
    /\ failedStep' = "none"
    /\ UNCHANGED <<state, error, m_initParams, m_http,
                   m_httpServer, m_ssdp, m_eventNotifier, m_presenceAnnouncer,
                   roots, activeClients, activeThreads, idx, cur, sendLeft, log>>

\* The mutated entry: the state is set before the configuration is looked at.
InitCall_StateFirst ==
    /\ pc = "init_called"
    /\ arg' = <<>>
    /\ IF state = "Initialized"
       THEN /\ rc' = "AlreadyInitialized"
            /\ pc' = "idle"
            /\ UNCHANGED <<state, error, errorString, failedStep, m_initParams,
                           m_http, m_httpServer, m_eventNotifier, log>>
       ELSE IF isEmpty(arg[1])
       THEN /\ state' = "Initializing"
            /\ errorString' = "No UPnP device configuration provided."
            /\ rc' = "InvalidConfiguration"
            /\ pc' = "idle"
            /\ UNCHANGED <<error, failedStep, m_initParams,
                           m_http, m_httpServer, m_eventNotifier, log>>
       ELSE /\ error' = ""
            /\ rc' = "Success"
            /\ failedStep' = "none"
            /\ state' = "Initializing"
            /\ m_initParams' = <<cloneHostConfiguration(arg[1])>>
            /\ m_http' = "live"
            /\ m_eventNotifier' = "live"
            /\ m_httpServer' = "created"
            /\ log' = <<>>
            /\ pc' = "init_listen"
            /\ UNCHANGED errorString
    /\ UNCHANGED <<call, m_ssdp, m_presenceAnnouncer, roots, activeClients,
                   activeThreads, idx, cur, sendLeft>>

\* init(), from its entry to the creation of the HTTP server.
InitCall ==
    /\ pc = "init_called"
    /\ arg' = <<>>
    /\ IF state = "Initialized"
       THEN /\ rc' = "AlreadyInitialized"
            /\ pc' = "idle"
            /\ UNCHANGED <<state, error, errorString, failedStep, m_initParams,
                           m_http, m_httpServer, m_eventNotifier, log>>
       ELSE IF isEmpty(arg[1])
       THEN /\ errorString' = "No UPnP device configuration provided."
            /\ rc' = "InvalidConfiguration"
            /\ pc' = "idle"
            /\ UNCHANGED <<state, error, failedStep, m_initParams,
                           m_http, m_httpServer, m_eventNotifier, log>>
       ELSE /\ error' = ""
            /\ rc' = "Success"
            /\ failedStep' = "none"
            /\ state' = "Initializing"
            /\ m_initParams' = <<cloneHostConfiguration(arg[1])>>
            /\ m_http' = "live"
            /\ m_eventNotifier' = "live"
            /\ m_httpServer' = "created"
            /\ log' = <<>>
            /\ pc' = "init_listen"
            /\ UNCHANGED errorString
    /\ UNCHANGED <<call, m_ssdp, m_presenceAnnouncer, roots, activeClients,
                   activeThreads, idx, cur, sendLeft>>

\* if (!h_ptr->m_httpServer->listen()) ... else
InitListen ==
    /\ pc = "init_listen"
    /\ \E ok \in BOOLEAN :
        IF ok
        THEN /\ m_httpServer' = "listening"
             /\ log' = Append(log, Ev("listen", 0))
             /\ idx' = 1
             /\ pc' = "init_createRootDevices"
             /\ UNCHANGED <<rc, errorString, failedStep>>
        ELSE /\ errorString' = "Could not start the HTTP server."
             /\ rc' = "UndefinedFailure"
             /\ failedStep' = "listen"
             /\ pc' = "init_check"
             /\ UNCHANGED <<m_httpServer, log, idx>>
    /\ UNCHANGED <<state, call, error, m_initParams, m_http, m_ssdp,
                   m_eventNotifier, m_presenceAnnouncer, roots, activeClients,
                   activeThreads, cur, sendLeft, arg>>

\* createRootDevices(): one turn of its foreach loop, or its end.
InitCreateRootDevices ==
    /\ pc = "init_createRootDevices"
    /\ LET diParams == deviceConfigurations(m_initParams[1]) IN
       IF idx > Len(diParams)
       THEN /\ pc' = "init_bind"
            /\ UNCHANGED <<rc, error, failedStep, roots, idx, log>>
       ELSE \E outcome \in CreateOutcomes :
            IF outcome = "ok"
            THEN /\ roots' = Append(roots, createRootDevice(diParams[idx]))
                 /\ log' = Append(log, Ev("createRootDevice", idx))
                 /\ idx' = idx + 1
                 /\ UNCHANGED <<pc, rc, error, failedStep>>
            ELSE /\ error' = reason(outcome)
                 /\ rc' = catchCode(outcome)
                 /\ failedStep' = outcome
                 /\ pc' = "init_check"
                 /\ UNCHANGED <<roots, idx, log>>
    /\ UNCHANGED <<state, call, errorString, m_initParams, m_http,
                   m_httpServer, m_ssdp, m_eventNotifier, m_presenceAnnouncer,
                   activeClients, activeThreads, cur, sendLeft, arg>>

\* m_ssdp.reset(new ...); if (!m_ssdp->bind()) throw ...;
\* m_presenceAnnouncer.reset(new PresenceAnnouncer(...))
InitBind ==
    /\ pc = "init_bind"
    /\ \E ok \in BOOLEAN :
        IF ok
        THEN /\ m_ssdp' = "bound"
             /\ m_presenceAnnouncer' =
                    <<individualAdvertisementCount(m_initParams[1])>>
             /\ log' = Append(log, [e |-> "bind", d |-> 0, open |-> TRUE])
             /\ pc' = "init_doInit"
             /\ UNCHANGED <<rc, error, failedStep>>
        ELSE /\ m_ssdp' = "unbound"
             /\ error' = reason("HSocketException")
             /\ rc' = catchCode("HSocketException")
             /\ failedStep' = "bind"
             /\ pc' = "init_check"
             /\ UNCHANGED <<m_presenceAnnouncer, log>>
    /\ UNCHANGED <<state, call, errorString, m_initParams, m_http,
                   m_httpServer, m_eventNotifier, roots, activeClients,
                   activeThreads, idx, cur, sendLeft, arg>>

\* The entry of log for a run of the doInit() hook that returned r.
DoInitReturned(r) == "doInit returned " \o r

\* The mutated step: the hosted devices are announced whatever doInit() says.
InitDoInit_IgnoreRc ==
    /\ pc = "init_doInit"
    /\ \E r \in DoInitCodes :
        /\ rc' = r
        /\ log' = Append(log, Ev(DoInitReturned(r), 0))
        /\ failedStep' = IF r = "Success" THEN "none" ELSE "doInit"
        /\ pc' = IF m_presenceAnnouncer[1] > 0
                 THEN "init_announce" ELSE "init_startNotifiers"
    /\ idx' = 0
    /\ UNCHANGED <<state, call, error, errorString, m_initParams, m_http,
                   m_httpServer, m_ssdp, m_eventNotifier, m_presenceAnnouncer,
                   roots, activeClients, activeThreads, cur, sendLeft, arg>>

\* rc = doInit(); if (rc == Success) { ...
InitDoInit ==
    /\ pc = "init_doInit"
    /\ \E r \in DoInitCodes :
        /\ rc' = r
        /\ log' = Append(log, Ev(DoInitReturned(r), 0))
        /\ failedStep' = IF r = "Success" THEN "none" ELSE "doInit"
        /\ pc' = IF r # "Success" THEN "init_check"
                 ELSE IF m_presenceAnnouncer[1] > 0
                      THEN "init_announce" ELSE "init_startNotifiers"
    /\ idx' = 0
    /\ UNCHANGED <<state, call, error, errorString, m_initParams, m_http,
                   m_httpServer, m_ssdp, m_eventNotifier, m_presenceAnnouncer,
                   roots, activeClients, activeThreads, cur, sendLeft, arg>>

\* m_presenceAnnouncer->announce<ResourceAvailableAnnouncement>(...): one
\* of its individualAdvertisementCount rounds, an ssdp:alive per root device.
InitAnnounce ==
    /\ pc = "init_announce"
    /\ roots' = [i \in 1..Len(roots) |-> aliveSent(roots[i])]
    /\ log' = log \o EvAll("alive")
    /\ idx' = idx + 1
    /\ sendLeft' = MaxSendSecs
    /\ pc' = IF idx + 1 >= m_presenceAnnouncer[1]
             THEN "init_startNotifiers" ELSE "init_announce"
    /\ UNCHANGED <<state, call, rc, error, errorString, failedStep,
                   m_initParams, m_http, m_httpServer, m_ssdp, m_eventNotifier,
                   m_presenceAnnouncer, activeClients, activeThreads, cur, arg>>

\* startNotifiers(); setState(Initialized);
InitStartNotifiers ==
    /\ pc = "init_startNotifiers"
    /\ roots' = [i \in 1..Len(roots) |-> startStatusNotifier(roots[i])]
    /\ log' = (log \o EvAll("startTimer")) \o <<Ev("Initialized", 0)>>
    /\ state' = "Initialized"
    /\ sendLeft' = 0
    /\ pc' = "init_check"
    /\ UNCHANGED <<call, rc, error, errorString, failedStep, m_initParams,
                   m_http, m_httpServer, m_ssdp, m_eventNotifier,
                   m_presenceAnnouncer, activeClients, activeThreads, idx, cur,
                   arg>>

\* if (rc != Success) { setState(Exiting); clear(); ... } ... return rc;
InitCheck ==
    /\ pc = "init_check"
    /\ IF rc # "Success"
       THEN /\ state' = "Exiting"
            /\ pc' = "clear_close"
       ELSE /\ pc' = "idle"
            /\ UNCHANGED state
    /\ UNCHANGED <<call, rc, error, errorString, failedStep, m_initParams,
                   m_http, m_httpServer, m_ssdp, m_eventNotifier,
                   m_presenceAnnouncer, roots, activeClients, activeThreads,
                   idx, cur, sendLeft, arg, log>>

\* After clear(): if (errorString) { *errorString = error; } return rc;
InitFailReturn ==
    /\ pc = "init_return"
    /\ errorString' = error
    /\ pc' = "idle"
    /\ UNCHANGED <<state, call, rc, error, failedStep, m_initParams, m_http,
                   m_httpServer, m_ssdp, m_eventNotifier, m_presenceAnnouncer,
                   roots, activeClients, activeThreads, idx, cur, sendLeft,
                   arg, log>>

(***************************************************************************)
(* HDeviceHost::quit                                                       *)
(***************************************************************************)
\* A user calls quit().
CallQuit ==
    /\ pc = "idle"
    /\ pc' = "quit_called"
    /\ call' = "quit"
    /\ rc' = "pending"
    /\ UNCHANGED <<state, error, errorString, failedStep, m_initParams, m_http,
                   m_httpServer, m_ssdp, m_eventNotifier, m_presenceAnnouncer,
                   roots, activeClients, activeThreads, idx, cur, sendLeft,
                   arg, log>>

\* The mutated entry: no early return, the host is shut down in any state.
QuitCall_NoEarlyReturn ==
    /\ pc = "quit_called"
    /\ state' = "Exiting"
    /\ log' = <<>>
    /\ pc' = "quit_stopNotifiers"
    /\ UNCHANGED <<call, rc, error, errorString, failedStep, m_initParams,
                   m_http, m_httpServer, m_ssdp, m_eventNotifier,
                   m_presenceAnnouncer, roots, activeClients, activeThreads,
                   idx, cur, sendLeft, arg>>

\* The mutated entry: setState(Exiting) is left out.
QuitCall_NoExiting ==
    /\ pc = "quit_called"
    /\ IF state = "Uninitialized"
       THEN /\ rc' = "void"
            /\ pc' = "idle"
            /\ UNCHANGED log
       ELSE /\ log' = <<>>
            /\ pc' = "quit_stopNotifiers"
            /\ UNCHANGED rc
    /\ UNCHANGED <<state, call, error, errorString, failedStep, m_initParams,
                   m_http, m_httpServer, m_ssdp, m_eventNotifier,
                   m_presenceAnnouncer, roots, activeClients, activeThreads,
                   idx, cur, sendLeft, arg>>

\* quit(), from its entry to setState(Exiting).  quit() is a void function:
\* what it "returns" is modelled as the value void.
QuitCall ==
    /\ pc = "quit_called"
    /\ IF state = "Uninitialized"
       THEN /\ rc' = "void"
            /\ pc' = "idle"
            /\ UNCHANGED <<state, log>>
       ELSE /\ state' = "Exiting"
            /\ log' = <<>>
            /\ pc' = "quit_stopNotifiers"
            /\ UNCHANGED rc
    /\ UNCHANGED <<call, error, errorString, failedStep, m_initParams, m_http,
                   m_httpServer, m_ssdp, m_eventNotifier, m_presenceAnnouncer,
                   roots, activeClients, activeThreads, idx, cur, sendLeft,
                   arg>>

\* stopNotifiers()
QuitStopNotifiers ==
    /\ pc = "quit_stopNotifiers"
    /\ roots' = [i \in 1..Len(roots) |-> stopStatusNotifier(roots[i])]
    /\ log' = log \o EvAll("stopTimer")
    /\ pc' = "quit_byebye"
    /\ UNCHANGED <<state, call, rc, error, errorString, failedStep,
                   m_initParams, m_http, m_httpServer, m_ssdp, m_eventNotifier,
                   m_presenceAnnouncer, activeClients, activeThreads, idx, cur,
                   sendLeft, arg>>

\* m_presenceAnnouncer->announce<ResourceUnavailableAnnouncement>(...);
\* then clear()
QuitByebye ==
    /\ pc = "quit_byebye"
    /\ log' = log \o EvAll("byebye")
    /\ pc' = "clear_close"
    /\ UNCHANGED <<state, call, rc, error, errorString, failedStep,
                   m_initParams, m_http, m_httpServer, m_ssdp, m_eventNotifier,
                   m_presenceAnnouncer, roots, activeClients, activeThreads,
                   idx, cur, sendLeft, arg>>

\* HLOG_INFO("Shut down."); and the return.
QuitReturn ==
    /\ pc = "quit_return"
    /\ rc' = "void"
    /\ pc' = "idle"
    /\ UNCHANGED <<state, call, error, errorString, failedStep, m_initParams,
                   m_http, m_httpServer, m_ssdp, m_eventNotifier,
                   m_presenceAnnouncer, roots, activeClients, activeThreads,
                   idx, cur, sendLeft, arg, log>>

(***************************************************************************)
(* HDeviceHostPrivate::doClear, run by HAbstractHostPrivate::clear()       *)
(***************************************************************************)
\* m_httpServer->close(false); m_http->shutdown(false); q_ptr->doQuit();
\* m_presenceAnnouncer.reset(0); m_ssdp.reset(0); m_eventNotifier->shutdown();
ClearClose ==
    /\ pc = "clear_close"
    /\ m_httpServer' = "closed"
    /\ m_http' = "shutdown"
    /\ m_presenceAnnouncer' = <<>>
    /\ m_ssdp' = "null"
    /\ m_eventNotifier' = "shutdown"
    /\ log' = log \o << Ev("httpClose", 0), Ev("doQuit", 0),
                        [e |-> "ssdpClose", d |-> 0, open |-> FALSE],
                        [e |-> "notifierShutdown", d |-> 0, open |-> FALSE] >>
    /\ pc' = "clear_drain"
    /\ UNCHANGED <<state, call, rc, error, errorString, failedStep,
                   m_initParams, roots, activeClients, activeThreads, idx, cur,
                   sendLeft, arg>>

\* The mutated loop condition: only the pool is waited for.
DrainLoopExit_PoolOnly == ~(activeThreads > 0)

\* The negation of the condition of the while loop of doClear().
DrainLoopExit == ~(activeClients # 0 \/ activeThreads > 0)

\* The while loop of doClear() ends.
ClearDrained ==
    /\ pc = "clear_drain"
    /\ DrainLoopExit
    /\ log' = Append(log, Ev("drained", 0))
    /\ pc' = "clear_waitForDone"
    /\ UNCHANGED <<state, call, rc, error, errorString, failedStep,
                   m_initParams, m_http, m_httpServer, m_ssdp, m_eventNotifier,
                   m_presenceAnnouncer, roots, activeClients, activeThreads,
                   idx, cur, sendLeft, arg>>

\* m_threadPool->waitForDone(); the resets; setState(Uninitialized);
ClearRelease ==
    /\ pc = "clear_waitForDone"
    /\ activeThreads = 0
    /\ m_http' = "null"
    /\ m_httpServer' = "null"
    /\ m_eventNotifier' = "null"
    /\ m_initParams' = <<>>
    /\ state' = "Uninitialized"
    /\ log' = Append(log, Ev("Uninitialized", 0))
    /\ pc' = "clear_deleteTree"
    /\ UNCHANGED <<call, rc, error, errorString, failedStep, m_ssdp,
                   m_presenceAnnouncer, roots, activeClients, activeThreads,
                   idx, cur, sendLeft, arg>>

\* HAbstractHostPrivate::clear(), after doClear(): the device tree is deleted.
ClearDeleteTree ==
    /\ pc = "clear_deleteTree"
    /\ roots' = <<>>
    /\ log' = Append(log, Ev("deleteTree", 0))
    /\ pc' = IF call = "init" THEN "init_return" ELSE "quit_return"
    /\ UNCHANGED <<state, call, rc, error, errorString, failedStep,
                   m_initParams, m_http, m_httpServer, m_ssdp, m_eventNotifier,
                   m_presenceAnnouncer, activeClients, activeThreads, idx, cur,
                   sendLeft, arg>>

(***************************************************************************)
(* The announcement timers.                                                *)
(***************************************************************************)
\* statusTimeout(rootDevice) is delivered by the event loop, which runs when
\* the host's thread is idle and inside the while loop of doClear():
\* announcementTimedout() up to sendAnnouncements().  In doClear() the
\* presence announcer is already reset, and the slot dereferences null.
AnnouncementTimedout ==
    /\ pc \in {"idle", "clear_drain"}
    /\ \E d \in 1..Len(roots) :
        /\ roots[d].timer = 0
        /\ IF m_presenceAnnouncer = <<>>
           THEN /\ pc' = "crashed"
                /\ UNCHANGED <<roots, cur, sendLeft>>
           ELSE /\ roots' = [roots EXCEPT ![d] = aliveSent([@ EXCEPT !.timer = -1])]
                /\ cur' = d
                /\ sendLeft' = MaxSendSecs
                /\ pc' = "announce_sending"
    /\ UNCHANGED <<state, call, rc, error, errorString, failedStep,
                   m_initParams, m_http, m_httpServer, m_ssdp, m_eventNotifier,
                   m_presenceAnnouncer, activeClients, activeThreads, idx, arg,
                   log>>

\* announcementTimedout(): rootDevice->startStatusNotifier(ThisOnly)
AnnouncementRestart ==
    /\ pc = "announce_sending"
    /\ roots' = [roots EXCEPT ![cur] = startStatusNotifier(@)]
    /\ cur' = 0
    /\ sendLeft' = 0
    /\ pc' = "idle"
    /\ UNCHANGED <<state, call, rc, error, errorString, failedStep,
                   m_initParams, m_http, m_httpServer, m_ssdp, m_eventNotifier,
                   m_presenceAnnouncer, activeClients, activeThreads, idx, arg,
                   log>>

\* A second passes while announcements are being sent.
TickSending ==
    /\ pc \in {"init_announce", "init_startNotifiers", "announce_sending"}
    /\ sendLeft > 0
    /\ sendLeft' = sendLeft - 1
    /\ roots' = [i \in 1..Len(roots) |-> secondPassed(roots[i])]
    /\ UNCHANGED <<state, pc, call, rc, error, errorString, failedStep,
                   m_initParams, m_http, m_httpServer, m_ssdp, m_eventNotifier,
                   m_presenceAnnouncer, activeClients, activeThreads, idx, cur,
                   arg, log>>

\* A second passes while the event loop waits; a due timer is served first.
TickWaiting ==
    /\ \/ pc = "idle" /\ state = "Initialized"
       \/ pc = "clear_drain" /\ ~DrainLoopExit
    /\ NoTimerDue
    /\ roots' = [i \in 1..Len(roots) |-> secondPassed(roots[i])]
    /\ UNCHANGED <<state, pc, call, rc, error, errorString, failedStep,
                   m_initParams, m_http, m_httpServer, m_ssdp, m_eventNotifier,
                   m_presenceAnnouncer, activeClients, activeThreads, idx, cur,
                   sendLeft, arg, log>>

(***************************************************************************)
(* HTTP requests and pool workers.                                         *)
(***************************************************************************)
RequestArrives ==
    /\ pc = "idle"
    /\ m_httpServer = "listening"
    /\ activeClients < MaxClients
    /\ activeClients' = activeClients + 1
    /\ UNCHANGED <<state, pc, call, rc, error, errorString, failedStep,
                   m_initParams, m_http, m_httpServer, m_ssdp, m_eventNotifier,
                   m_presenceAnnouncer, roots, activeThreads, idx, cur,
                   sendLeft, arg, log>>

ClientDone ==
    /\ activeClients > 0
    /\ activeClients' = activeClients - 1
    /\ UNCHANGED <<state, pc, call, rc, error, errorString, failedStep,
                   m_initParams, m_http, m_httpServer, m_ssdp, m_eventNotifier,
                   m_presenceAnnouncer, roots, activeThreads, idx, cur,
                   sendLeft, arg, log>>

WorkerStarts ==
    /\ pc = "idle"
    /\ state = "Initialized"
    /\ activeThreads < MaxWorkers
    /\ activeThreads' = activeThreads + 1
    /\ UNCHANGED <<state, pc, call, rc, error, errorString, failedStep,
                   m_initParams, m_http, m_httpServer, m_ssdp, m_eventNotifier,
                   m_presenceAnnouncer, roots, activeClients, idx, cur,
                   sendLeft, arg, log>>

WorkerDone ==
    /\ activeThreads > 0
    /\ activeThreads' = activeThreads - 1
    /\ UNCHANGED <<state, pc, call, rc, error, errorString, failedStep,
                   m_initParams, m_http, m_httpServer, m_ssdp, m_eventNotifier,
                   m_presenceAnnouncer, roots, activeClients, idx, cur,
                   sendLeft, arg, log>>

(***************************************************************************)
(* The control point's event subscription manager,                         *)
(* HEventSubscriptionManager, taken from                                   *)
(* src/herqq/hupnp/src/hupnp_core/devicehosting/controlpoint/              *)
(* hevent_subscriptionmanager_p.cpp.  The subscription objects it manages  *)
(* (HEventSubscription) and the control point that owns it                 *)
(* (HControlPointPrivate) are not part of these sources; what the manager  *)
(* needs of them follows the specification of the library.                 *)
(*                                                                         *)
(* The manager works on one root device of the control point.  Device 1 is *)
(* the root device and device d + 1 is embedded in device d.  Every device *)
(* has an evented service "a"; the first embedded device has a second      *)
(* evented service "b" and the root device a service "plain" that is not   *)
(* evented.                                                                *)
(***************************************************************************)
Devices == 1..MaxDevices

Services ==
    {[dev |-> d, name |-> "a"] : d \in Devices}
        \cup {[dev |-> d, name |-> "b"] : d \in Devices \cap {2}}
        \cup {[dev |-> d, name |-> "plain"] : d \in Devices \cap {1}}

\* HServiceProxy::isEvented
isEvented(service) == service.name # "plain"

\* HServiceProxy::parentDevice()->deviceInfo().udn()
parentDevice(service) == service.dev

\* HDeviceProxy::embeddedProxyDevices
embeddedProxyDevices(device) ==
    IF device + 1 \in Devices THEN <<device + 1>> ELSE <<>>

VisitTypes ==
    {"VisitThisOnly", "VisitThisAndDirectChildren", "VisitThisRecursively"}

\* The addresses of HEventSubscription objects: one the allocator prefers
\* for each service, and a spare one.  NullPtr is the null pointer.
NullPtr == [dev |-> 0, name |-> "null"]

SparePtr == [dev |-> 0, name |-> "spare"]

Ptrs == Services \cup {SparePtr}

\* The callback ids (HEventSubscription::id) subscriptions are created with.
Ids == Ptrs

\* No object at this address.
NoSub == [status |-> "deleted"]

VARIABLES
    objs,                   \* the HEventSubscription objects, by address
    m_subscribtionsByUuid,  \* QHash<QUuid, HEventSubscription*>
    m_subscriptionsByUdn,   \* QHash<HUdn, QList<HEventSubscription*>*>
    online,                 \* the root device is in the device storage
    subOp,                  \* the last operation and its arguments
    subResult,              \* what the last operation returned
    subCalls                \* the calls and signals the last operation made

subVars == <<objs, m_subscribtionsByUuid, m_subscriptionsByUdn, online,
             subOp, subResult, subCalls>>

SubInit ==
    /\ objs = [p \in Ptrs |-> NoSub]
    /\ m_subscribtionsByUuid = << >>
    /\ m_subscriptionsByUdn = << >>
    /\ online = TRUE
    /\ subOp = [op |-> "none"]
    /\ subResult = "none"
    /\ subCalls = << >>

\* QHash::value: the element under a key, or the default (0, an empty list).
byUuid(id) ==
    IF id \in DOMAIN m_subscribtionsByUuid
    THEN m_subscribtionsByUuid[id] ELSE NullPtr

hasSubs(udn) == udn \in DOMAIN m_subscriptionsByUdn

subsOf(udn) == IF hasSubs(udn) THEN m_subscriptionsByUdn[udn] ELSE << >>

\* QHash::insert and QHash::remove.
hashInsert(h, k, v) == [x \in DOMAIN h \cup {k} |-> IF x = k THEN v ELSE h[x]]

hashRemove(h, ks) == [x \in DOMAIN h \ ks |-> h[x]]

\* The elements of a sequence, as a set.
Range(s) == {s[i] : i \in 1..Len(s)}

\* A sequence without its i-th element (QList::erase).
erase(s, i) == [j \in 1..(Len(s) - 1) |-> IF j < i THEN s[j] ELSE s[j + 1]]

(***************************************************************************)
(* HEventSubscription, as far as the manager uses it.  Its status follows  *)
(* the state machine of the client subscription: a call for which the      *)
(* status has no edge leaves the status alone.                             *)
(***************************************************************************)
\* new HEventSubscription(...)
newSubscription(id, service) ==
    [id |-> id, service |-> service, status |-> "Unsubscribed"]

\* The mutated subscribe(): the subscription counts as made at once.
subscribeOp_NoResponse(sub) == [sub EXCEPT !.status = "Subscribed"]

\* HEventSubscription::subscribe
subscribeOp(sub) ==
    IF sub.status = "Unsubscribed"
    THEN [sub EXCEPT !.status = "Subscribing"]
    ELSE sub

\* HEventSubscription::unsubscribe
unsubscribeOp(sub) ==
    IF sub.status = "Subscribed"
    THEN [sub EXCEPT !.status = "Unsubscribing"]
    ELSE sub

\* HEventSubscription::resetSubscription
resetSubscription(sub) == [sub EXCEPT !.status = "Unsubscribed"]

\* HEventSubscription::onNotify: a notification is taken when the
\* subscription is made; it goes on to the state variables of the service
\* and leaves the status of the subscription alone.
notifyAccepted(sub) == sub.status = "Subscribed"

onNotifyOp(sub) == sub

\* The calls made on the objects of a list, in order.
callsOn(method, ptrs) == [i \in 1..Len(ptrs) |-> <<method, ptrs[i]>>]

\* A sequence of sequences, flattened.
RECURSIVE flatten(_)
flatten(ss) == IF ss = << >> THEN << >> ELSE Head(ss) \o flatten(Tail(ss))

(***************************************************************************)
(* The operations of the manager.                                          *)
(***************************************************************************)
\* The mutated search: only the first subscription of the list is looked at.
matchIndex_FirstOnly(udn, service) ==
    LET subs == subsOf(udn)
    IN IF subs # << >> /\ objs[subs[1]].service = service THEN 1 ELSE 0

\* The mutated search: the list of the device is not looked at.
matchIndex_NoSearch(udn, service) == 0

\* The loop over the subscriptions of a device that looks for the one of a
\* service: the position of the first match in the list, 0 when none.
matchIndex(udn, service) ==
    LET subs == subsOf(udn)
        ms == {i \in 1..Len(subs) : objs[subs[i]].service = service}
    IN IF ms = {} THEN 0 ELSE CHOOSE i \in ms : \A j \in ms : i <= j

\* operator new: a free address, the one preferred for the service when
\* it is free.
freePtrs == {p \in Ptrs : objs[p] = NoSub}

newPtr(service) == IF service \in freePtrs THEN service ELSE SparePtr

\* QUuid::createUuid: an id no subscription is registered under.
freeIds == Ids \ DOMAIN m_subscribtionsByUuid

newId(service) == IF service \in freeIds THEN service ELSE SparePtr

\* subscribe(HServiceProxy*, qint32)
Subscribe ==
    /\ online
    /\ \E service \in Services :
        LET deviceUdn == parentDevice(service)
            i == matchIndex(deviceUdn, service)
        IN /\ subOp' = [op |-> "subscribe", service |-> service]
           /\ IF ~isEvented(service)
              THEN /\ subResult' = "Sub_Failed_NotEvented"
                   /\ subCalls' = << >>
                   /\ UNCHANGED <<objs, m_subscribtionsByUuid,
                                  m_subscriptionsByUdn>>
              ELSE IF i # 0
              THEN LET sub == subsOf(deviceUdn)[i]
                   IN IF objs[sub].status = "Subscribed"
                      THEN /\ subResult' = "Sub_AlreadySubscribed"
                           /\ subCalls' = << >>
                           /\ UNCHANGED <<objs, m_subscribtionsByUuid,
                                          m_subscriptionsByUdn>>
                      ELSE /\ objs' = [objs EXCEPT ![sub] = subscribeOp(@)]
                           /\ subResult' = "Sub_Success"
                           /\ subCalls' = <<<<"subscribe", sub>>>>
                           /\ UNCHANGED <<m_subscribtionsByUuid,
                                          m_subscriptionsByUdn>>
              ELSE LET sub == newPtr(service)
                       id == newId(service)
                   IN /\ sub \in freePtrs
                      /\ id \in freeIds
                      /\ objs' = [objs EXCEPT ![sub] =
                                    subscribeOp(newSubscription(id, service))]
                      /\ m_subscribtionsByUuid' =
                             hashInsert(m_subscribtionsByUuid, id, sub)
                      /\ m_subscriptionsByUdn' =
                             hashInsert(m_subscriptionsByUdn, deviceUdn,
                                        Append(subsOf(deviceUdn), sub))
                      /\ subResult' = "Sub_Success"
                      /\ subCalls' = <<<<"subscribe", sub>>>>
    /\ UNCHANGED online

\* The visit type cancel() hands to the embedded devices.
visitTypeForChildren(visitType) ==
    IF visitType = "VisitThisRecursively"
    THEN "VisitThisRecursively" ELSE "VisitThisOnly"

\* The devices whose subscription lists cancel(HDeviceProxy*, ...) goes
\* through, in order: it returns at a device without a list before it
\* looks at the embedded devices.
RECURSIVE cancelVisits(_, _)
cancelVisits(device, visitType) ==
    IF ~hasSubs(device) THEN << >>
    ELSE <<device>> \o
         IF visitType = "VisitThisOnly" THEN << >>
         ELSE LET devices == embeddedProxyDevices(device)
              IN flatten([k \in 1..Len(devices) |->
                     cancelVisits(devices[k], visitTypeForChildren(visitType))])

\* The devices whose lists remove(HDeviceProxy*, bool) deletes, in order.
RECURSIVE removeVisits(_, _)
removeVisits(device, recursive) ==
    IF ~hasSubs(device) THEN << >>
    ELSE <<device>> \o
         IF ~recursive THEN << >>
         ELSE LET devices == embeddedProxyDevices(device)
              IN flatten([k \in 1..Len(devices) |->
                     removeVisits(devices[k], recursive)])

\* The subscriptions in the lists of some devices, in order.
subsOfAll(devices) == flatten([k \in 1..Len(devices) |-> subsOf(devices[k])])

\* What cancel() does to one subscription.
cancelOp(sub, unsubscribe) ==
    IF unsubscribe THEN unsubscribeOp(sub) ELSE resetSubscription(sub)

cancelMethod(unsubscribe) ==
    IF unsubscribe THEN "unsubscribe" ELSE "resetSubscription"

\* The objects after cancel() went through the subscriptions ptrs.
cancelObjs(ptrs, unsubscribe) ==
    [p \in Ptrs |-> IF p \in Range(ptrs)
                    THEN cancelOp(objs[p], unsubscribe) ELSE objs[p]]

Bool(b) == IF b THEN "true" ELSE "false"

\* cancel(HDeviceProxy*, HDevice::DeviceVisitType, bool)
CancelDevice ==
    /\ online
    /\ \E device \in Devices, visitType \in VisitTypes, unsubscribe \in BOOLEAN :
        LET ptrs == subsOfAll(cancelVisits(device, visitType))
        IN /\ subOp' = [op |-> "cancel", device |-> device,
                        visitType |-> visitType, unsubscribe |-> unsubscribe]
           /\ objs' = cancelObjs(ptrs, unsubscribe)
           /\ subCalls' = callsOn(cancelMethod(unsubscribe), ptrs)
           /\ subResult' = Bool(hasSubs(device))
    /\ UNCHANGED <<m_subscribtionsByUuid, m_subscriptionsByUdn, online>>

\* The objects and the indices after the lists of some devices are deleted.
removeObjs(o, ptrs) ==
    [p \in Ptrs |-> IF p \in Range(ptrs) THEN NoSub ELSE o[p]]

\* The mutated removal: the sid index keeps its entries.
removeUuids_None(ptrs) == m_subscribtionsByUuid

removeUuids(ptrs) ==
    hashRemove(m_subscribtionsByUuid, {objs[p].id : p \in Range(ptrs)})

removeUdns(devices) == hashRemove(m_subscriptionsByUdn, Range(devices))

\* remove(HDeviceProxy*, bool)
RemoveDevice ==
    /\ online
    /\ \E device \in Devices, recursive \in BOOLEAN :
        LET devices == removeVisits(device, recursive)
            ptrs == subsOfAll(devices)
        IN /\ subOp' = [op |-> "remove", device |-> device,
                        recursive |-> recursive]
           /\ objs' = removeObjs(objs, ptrs)
           /\ m_subscribtionsByUuid' = removeUuids(ptrs)
           /\ m_subscriptionsByUdn' = removeUdns(devices)
           /\ subCalls' = callsOn("delete", ptrs)
           /\ subResult' = Bool(hasSubs(device))
    /\ UNCHANGED online

\* cancel(HServiceProxy*, bool)
CancelService ==
    /\ online
    /\ \E service \in Services, unsubscribe \in BOOLEAN :
        LET udn == parentDevice(service)
            i == matchIndex(udn, service)
            ptrs == IF i = 0 THEN << >> ELSE <<subsOf(udn)[i]>>
        IN /\ subOp' = [op |-> "cancelService", service |-> service,
                        unsubscribe |-> unsubscribe]
           /\ objs' = cancelObjs(ptrs, unsubscribe)
           /\ subCalls' = callsOn(cancelMethod(unsubscribe), ptrs)
           /\ subResult' = Bool(i # 0)
    /\ UNCHANGED <<m_subscribtionsByUuid, m_subscriptionsByUdn, online>>

\* remove(HServiceProxy*)
RemoveService ==
    /\ online
    /\ \E service \in Services :
        LET udn == parentDevice(service)
            i == matchIndex(udn, service)
        IN /\ subOp' = [op |-> "removeService", service |-> service]
           /\ subResult' = Bool(i # 0)
           /\ IF i = 0
              THEN /\ subCalls' = << >>
                   /\ UNCHANGED <<objs, m_subscribtionsByUuid,
                                  m_subscriptionsByUdn>>
              ELSE LET subs == erase(subsOf(udn), i)
                       sub == subsOf(udn)[i]
                   IN /\ m_subscriptionsByUdn' =
                             IF subs = << >>
                             THEN hashRemove(m_subscriptionsByUdn, {udn})
                             ELSE hashInsert(m_subscriptionsByUdn, udn, subs)
                      /\ m_subscribtionsByUuid' = removeUuids(<<sub>>)
                      /\ objs' = removeObjs(objs, <<sub>>)
                      /\ subCalls' = <<<<"delete", sub>>>>
    /\ UNCHANGED online

\* The subscriptions of the sid index, in the order of the hash.
RECURSIVE uuidValues(_)
uuidValues(ids) ==
    IF ids = {} THEN << >>
    ELSE LET i == CHOOSE x \in ids : TRUE
         IN <<m_subscribtionsByUuid[i]>> \o uuidValues(ids \ {i})

\* cancelAll(qint32)
CancelAll ==
    /\ online
    /\ LET ptrs == uuidValues(DOMAIN m_subscribtionsByUuid)
       IN /\ objs' = cancelObjs(ptrs, TRUE)
          /\ subCalls' = callsOn("unsubscribe", ptrs)
    /\ subOp' = [op |-> "cancelAll"]
    /\ subResult' = "void"
    /\ UNCHANGED <<m_subscribtionsByUuid, m_subscriptionsByUdn, online>>

\* removeAll()
RemoveAll ==
    /\ online
    /\ LET ptrs == uuidValues(DOMAIN m_subscribtionsByUuid)
       IN /\ objs' = removeObjs(objs, ptrs)
          /\ subCalls' = callsOn("delete", ptrs)
    /\ m_subscribtionsByUuid' = << >>
    /\ m_subscriptionsByUdn' = << >>
    /\ subOp' = [op |-> "removeAll"]
    /\ subResult' = "void"
    /\ UNCHANGED online

\* The mutated lookup: a request goes to any subscription there is.
notifyTarget_Any(id) ==
    IF DOMAIN m_subscribtionsByUuid = {} THEN NullPtr
    ELSE m_subscribtionsByUuid[CHOOSE i \in DOMAIN m_subscribtionsByUuid : TRUE]

\* onNotify: the subscription a request with callback id is handed to.
notifyTarget(id) == byUuid(id)

\* onNotify(const QUuid&, MessagingInfo&, const NotifyRequest&)
OnNotify ==
    /\ \E id \in Ids :
        LET sub == notifyTarget(id)
        IN /\ subOp' = [op |-> "onNotify", id |-> id]
           /\ IF sub = NullPtr
              THEN /\ subResult' = "false"
                   /\ subCalls' = << >>
                   /\ UNCHANGED objs
              ELSE /\ subResult' = Bool(notifyAccepted(objs[sub]))
                   /\ subCalls' = <<<<"onNotify", sub>>>>
                   /\ objs' = [objs EXCEPT ![sub] = onNotifyOp(@)]
    /\ UNCHANGED <<m_subscribtionsByUuid, m_subscriptionsByUdn, online>>

\* ControlPointHttpServer::incomingNotifyMessage: the response to a NOTIFY
\* request the manager did not take.
notifyResponse(taken) == IF taken = "true" THEN "Ok" ELSE "PreconditionFailed"

\* The SUBSCRIBE request of a subscription is answered with 200 OK;
\* subscribed_slot passes the signal on.
SubscribeOk ==
    /\ \E sub \in Ptrs :
        /\ objs[sub].status = "Subscribing"
        /\ objs' = [objs EXCEPT ![sub].status = "Subscribed"]
        /\ subOp' = [op |-> "subscribeOk", sub |-> sub]
        /\ subCalls' = <<<<"emit subscribed", objs[sub].service>>>>
    /\ subResult' = "void"
    /\ UNCHANGED <<m_subscribtionsByUuid, m_subscriptionsByUdn, online>>

\* The mutated slot: the failure is passed on, the subscription is not
\* reset.
SubscriptionFailed_NoReset ==
    /\ \E sub \in Ptrs :
        /\ objs[sub].status \in {"Subscribing", "Subscribed"}
        /\ subOp' = [op |-> "subscriptionFailed", sub |-> sub]
        /\ subCalls' = <<<<"emit subscriptionFailed", objs[sub].service>>>>
    /\ subResult' = "void"
    /\ UNCHANGED <<objs, m_subscribtionsByUuid, m_subscriptionsByUdn, online>>

\* A subscription reports that its subscribe or renewal failed:
\* subscriptionFailed_slot
SubscriptionFailed ==
    /\ \E sub \in Ptrs :
        /\ objs[sub].status \in {"Subscribing", "Subscribed"}
        /\ objs' = [objs EXCEPT ![sub] = resetSubscription(@)]
        /\ subOp' = [op |-> "subscriptionFailed", sub |-> sub]
        /\ subCalls' = <<<<"resetSubscription", sub>>,
                         <<"emit subscriptionFailed", objs[sub].service>>>>
    /\ subResult' = "void"
    /\ UNCHANGED <<m_subscribtionsByUuid, m_subscriptionsByUdn, online>>

\* The UNSUBSCRIBE request of a subscription is done; unsubscribed() passes
\* the signal on.
Unsubscribed ==
    /\ \E sub \in Ptrs :
        /\ objs[sub].status = "Unsubscribing"
        /\ objs' = [objs EXCEPT ![sub].status = "Unsubscribed"]
        /\ subOp' = [op |-> "unsubscribed", sub |-> sub]
        /\ subCalls' = <<<<"emit unsubscribed", objs[sub].service>>>>
    /\ subResult' = "void"
    /\ UNCHANGED <<m_subscribtionsByUuid, m_subscriptionsByUdn, online>>

\* HControlPointPrivate::removeRootDeviceAndSubscriptions(rootDevice, false),
\* on ssdp:byebye and on expiry of the max-age: the subscriptions of the
\* tree are cancelled without UNSUBSCRIBE and removed, the tree is taken
\* out of the device storage.
RemoveRootDevice ==
    /\ online
    /\ LET cancelled == subsOfAll(cancelVisits(1, "VisitThisRecursively"))
           devices == removeVisits(1, TRUE)
           ptrs == subsOfAll(devices)
       IN /\ objs' = removeObjs(cancelObjs(cancelled, FALSE), ptrs)
          /\ m_subscribtionsByUuid' = removeUuids(ptrs)
          /\ m_subscriptionsByUdn' = removeUdns(devices)
          /\ subCalls' = callsOn(cancelMethod(FALSE), cancelled)
                             \o callsOn("delete", ptrs)
    /\ online' = FALSE
    /\ subOp' = [op |-> "removeRootDevice"]
    /\ subResult' = "void"

(***************************************************************************)
(* The event notifier of the device host (event_notifier_p.cpp).  Its      *)
(* operations run under m_remoteClientsMutex, one at a time; shutdown()    *)
(* sets m_shutdown before it takes the mutex.                              *)
(***************************************************************************)
\* The services of the hosted device: isSameService compares the UDN of
\* the parent device and the SCPD URL.  Service z has no evented state
\* variable, so HService::isEvented() is false for it.
HostServices ==
    {[udn |-> 1, scpdUrl |-> "x", isEvented |-> TRUE],
     [udn |-> 1, scpdUrl |-> "y", isEvented |-> TRUE],
     [udn |-> 1, scpdUrl |-> "z", isEvented |-> FALSE]}


\* The callback URLs of a SUBSCRIBE request.
Locations == {"u1", "u2"}

\* The service of the hosted device with the SCPD URL url.
hostService(url) == CHOOSE srv \in HostServices : srv.scpdUrl = url

\* The SUBSCRIBE requests that arrive: the service of the event URL, the
\* callback URLs and the timeout asked for, in seconds.
SubscribeRequests ==
    {[service |-> hostService("x"), callbacks |-> <<"u1">>, timeout |-> 300],
     [service |-> hostService("x"), callbacks |-> <<"u2">>, timeout |-> 1800],
     [service |-> hostService("x"), callbacks |-> <<"u1", "u2">>,
      timeout |-> 300],
     [service |-> hostService("z"), callbacks |-> <<"u1">>, timeout |-> 300],
     [service |-> hostService("z"), callbacks |-> <<"u1", "u2">>,
      timeout |-> 1800]}

\* The subscribers there can be; sid 0 is the null pointer.
Sids == 1..MaxSubscribers

NoSubscriber == [sid |-> 0]

VARIABLES
    m_remoteClients,  \* QList<ServiceEventSubscriberPtrT>, as sids
    subscribers,      \* the ServiceEventSubscriber objects, by sid
    m_shutdown,       \* volatile bool m_shutdown
    shutdownPc,       \* where the thread that runs shutdown() is
    enOp,             \* the operation of the last step and its arguments
    enResult,         \* what it returned
    enSent            \* the NOTIFY messages it handed to subscribers

enVars == <<m_remoteClients, subscribers, m_shutdown, shutdownPc,
            enOp, enResult, enSent>>

\* EventNotifier::EventNotifier
EnInit ==
    /\ m_remoteClients = << >>
    /\ subscribers = [s \in Sids |-> NoSubscriber]
    /\ m_shutdown = FALSE
    /\ shutdownPc = "idle"
    /\ enOp = [op |-> "none"]
    /\ enResult = "void"
    /\ enSent = << >>

isSameService(srv1, srv2) ==
    srv1.udn = srv2.udn /\ srv1.scpdUrl = srv2.scpdUrl

\* QList::contains
contains(list, x) == \E i \in 1..Len(list) : list[i] = x

\* new ServiceEventSubscriber(http, threadpool, service, location, timeout):
\* seq is 0 until the initial notify has gone out.
newSubscriber(sid, service, location, timeout) ==
    [sid |-> sid, service |-> service, location |-> location,
     timeout |-> timeout, expired |-> FALSE, seq |-> 0]

\* Q_ASSERT(cond): nothing happens when cond holds; when it does not, a
\* build with assertions aborts the process and a build without them goes
\* on.
assertion(cond) == IF cond THEN {"passed"} ELSE {"passed", "aborted"}

\* service->isEvented() ? sreq.timeout() : HTimeout(60*60*24)
grantedTimeout(service, requested) ==
    IF service.isEvented THEN requested ELSE 60 * 60 * 24

\* ServiceEventSubscriber::expire
expire(sub) == [sub EXCEPT !.expired = TRUE]

\* ServiceEventSubscriber::isInterested
isInterested(sub, source) ==
    ~sub.expired /\ sub.seq # 0 /\ isSameService(sub.service, source)

\* ServiceEventSubscriber::initialNotify sends the first message of a
\* subscription that has not expired.
initialNotifySends(sub) == ~sub.expired /\ sub.seq = 0

\* The values a handler can read from m_shutdown: the flag is written
\* outside the mutex, so a handler that holds the mutex while shutdown()
\* waits for it sees the old or the new value.
readShutdown ==
    IF shutdownPc = "flagged" THEN BOOLEAN ELSE {m_shutdown}

\* The sid a new subscriber gets.
freeSids == {s \in Sids : subscribers[s] = NoSubscriber}

\* remoteClient(sid): the position of the first subscriber with the sid in
\* the list, 0 when there is none.
remoteClient(sid) ==
    LET ms == {i \in 1..Len(m_remoteClients) : m_remoteClients[i] = sid}
    IN IF ms = {} THEN 0 ELSE CHOOSE i \in ms : \A j \in ms : i <= j

\* addSubscriber(HService*, const SubscribeRequest&).  The function
\* begins with Q_ASSERT(service->isEvented()): a build with assertions
\* aborts there for a service that is not evented, a build without them
\* goes on.
AddSubscriber ==
    /\ enResult # "aborted"
    /\ \E sreq \in SubscribeRequests, shutdown \in readShutdown :
      \E asserted \in assertion(sreq.service.isEvented) :
        LET service == sreq.service
        IN
        IF asserted = "aborted"
        THEN /\ enOp' = [op |-> "addSubscriber", sreq |-> sreq, rc |-> 0]
             /\ enResult' = "aborted"
             /\ UNCHANGED <<m_remoteClients, subscribers>>
        ELSE IF shutdown
        THEN /\ enOp' = [op |-> "addSubscriber", sreq |-> sreq, rc |-> 0]
             /\ enResult' = "null"
             /\ UNCHANGED <<m_remoteClients, subscribers>>
        ELSE IF \E i \in 1..Len(m_remoteClients) :
                  LET client == subscribers[m_remoteClients[i]]
                  IN /\ isSameService(client.service, service)
                     /\ contains(sreq.callbacks, client.location)
        THEN /\ enOp' = [op |-> "addSubscriber", sreq |-> sreq, rc |-> 0]
             /\ enResult' = "null"
             /\ UNCHANGED <<m_remoteClients, subscribers>>
        ELSE /\ freeSids # {}
             /\ LET sid == CHOOSE s \in freeSids : \A t \in freeSids : s <= t
                IN /\ subscribers' = [subscribers EXCEPT ![sid] =
                           newSubscriber(sid, service, sreq.callbacks[1],
                               grantedTimeout(service, sreq.timeout))]
                   /\ m_remoteClients' = Append(m_remoteClients, sid)
                   /\ enOp' = [op |-> "addSubscriber", sreq |-> sreq,
                               rc |-> sid]
             /\ enResult' = "rc"
    /\ enSent' = << >>
    /\ UNCHANGED <<m_shutdown, shutdownPc>>

\* The mutated removeSubscriber: the subscriber is expired and stays in the
\* list.
RemoveSubscriber_NoErase ==
    /\ enResult # "aborted"
    /\ \E sid \in Sids, shutdown \in readShutdown :
        LET i == remoteClient(sid)
        IN /\ enOp' = [op |-> "removeSubscriber", sid |-> sid]
           /\ IF shutdown \/ i = 0
              THEN /\ enResult' = "false"
                   /\ UNCHANGED <<m_remoteClients, subscribers>>
              ELSE /\ subscribers' = [subscribers EXCEPT ![sid] = expire(@)]
                   /\ UNCHANGED m_remoteClients
                   /\ enResult' = "true"
    /\ enSent' = << >>
    /\ UNCHANGED <<m_shutdown, shutdownPc>>

\* removeSubscriber(const UnsubscribeRequest&)
RemoveSubscriber ==
    /\ enResult # "aborted"
    /\ \E sid \in Sids, shutdown \in readShutdown :
        LET i == remoteClient(sid)
        IN /\ enOp' = [op |-> "removeSubscriber", sid |-> sid]
           /\ IF shutdown \/ i = 0
              THEN /\ enResult' = "false"
                   /\ UNCHANGED <<m_remoteClients, subscribers>>
              ELSE /\ subscribers' = [subscribers EXCEPT ![sid] = expire(@)]
                   /\ m_remoteClients' = erase(m_remoteClients, i)
                   /\ enResult' = "true"
    /\ enSent' = << >>
    /\ UNCHANGED <<m_shutdown, shutdownPc>>

\* renewSubscription(const SubscribeRequest&): renew() restarts the timer
\* of the subscriber.
RenewSubscription ==
    /\ enResult # "aborted"
    /\ \E sid \in Sids, shutdown \in readShutdown :
        LET i == remoteClient(sid)
        IN IF shutdown \/ i = 0
           THEN /\ enOp' = [op |-> "renewSubscription", sid |-> sid, rc |-> 0]
                /\ enResult' = "null"
           ELSE /\ enOp' = [op |-> "renewSubscription", sid |-> sid,
                            rc |-> sid]
                /\ enResult' = "rc"
    /\ enSent' = << >>
    /\ UNCHANGED <<m_remoteClients, subscribers, m_shutdown, shutdownPc>>

\* The loop of stateChanged over a list of subscribers: the ones that are
\* handed the message, in order.
notified(list, source) ==
    SelectSeq(list, LAMBDA s : isInterested(subscribers[s], source))

\* The loop of stateChanged: the list without the expired subscribers that
\* are not interested.
swept(list, source) ==
    SelectSeq(list, LAMBDA s : \/ isInterested(subscribers[s], source)
                               \/ ~subscribers[s].expired)

\* stateChanged(const HService*): HService calls it for a service with
\* evented state variables.
StateChanged ==
    /\ enResult # "aborted"
    /\ \E source \in {srv \in HostServices : srv.isEvented},
          shutdown \in readShutdown :
        /\ enOp' = [op |-> "stateChanged", source |-> source]
        /\ IF shutdown
           THEN /\ enSent' = << >>
                /\ UNCHANGED m_remoteClients
           ELSE /\ enSent' = notified(m_remoteClients, source)
                /\ m_remoteClients' = swept(m_remoteClients, source)
    /\ enResult' = "void"
    /\ UNCHANGED <<subscribers, m_shutdown, shutdownPc>>

\* initialNotify(ServiceEventSubscriberPtrT, MessagingInfo&), called by the
\* HTTP server with the subscriber addSubscriber returned: over the
\* connection of the request when it is kept alive and the subscriber
\* acknowledges in time, over a new connection otherwise.
InitialNotify ==
    /\ enResult # "aborted"
    /\ \E sid \in Sids, keepAlive \in BOOLEAN :
        /\ subscribers[sid] # NoSubscriber
        /\ subscribers[sid].seq = 0
        /\ enOp' = [op |-> "initialNotify", rc |-> sid]
        /\ IF initialNotifySends(subscribers[sid])
           THEN /\ enSent' = <<sid>>
                /\ subscribers' = [subscribers EXCEPT ![sid].seq = 1]
           ELSE /\ enSent' = << >>
                /\ UNCHANGED subscribers
    /\ enResult' = "void"
    /\ UNCHANGED <<m_remoteClients, m_shutdown, shutdownPc>>

\* The timeout of a subscriber runs out, or a message to it could not be
\* delivered: the subscriber marks itself expired.
SubscriberExpires ==
    /\ enResult # "aborted"
    /\ \E sid \in Sids :
        /\ subscribers[sid] # NoSubscriber
        /\ ~subscribers[sid].expired
        /\ subscribers' = [subscribers EXCEPT ![sid] = expire(@)]
        /\ enOp' = [op |-> "expire", sid |-> sid]
    /\ enResult' = "void"
    /\ enSent' = << >>
    /\ UNCHANGED <<m_remoteClients, m_shutdown, shutdownPc>>

\* shutdown(), first statement: m_shutdown = true
ShutdownSetFlag ==
    /\ enResult # "aborted"
    /\ shutdownPc = "idle"
    /\ m_shutdown' = TRUE
    /\ shutdownPc' = "flagged"
    /\ enOp' = [op |-> "shutdown"]
    /\ enResult' = "void"
    /\ enSent' = << >>
    /\ UNCHANGED <<m_remoteClients, subscribers>>

\* The mutated loop of shutdown(): no subscriber is expired.
expireAll_None(list) == subscribers

\* The loop of shutdown(): every subscriber of the list is expired.
expireAll(list) ==
    [s \in Sids |-> IF s \in Range(list)
                    THEN expire(subscribers[s]) ELSE subscribers[s]]

\* shutdown(), under the mutex: the subscribers are expired, the list is
\* cleared.
ShutdownClear ==
    /\ enResult # "aborted"
    /\ shutdownPc = "flagged"
    /\ subscribers' = expireAll(m_remoteClients)
    /\ m_remoteClients' = << >>
    /\ shutdownPc' = "done"
    /\ enOp' = [op |-> "shutdown"]
    /\ enResult' = "void"
    /\ enSent' = << >>
    /\ UNCHANGED m_shutdown

(***************************************************************************)
(* The event messages of the device host: the values of the state          *)
(* variables of the hosted services, the bodies getCurrentValues builds    *)
(* for the initial notify and for stateChanged, and the delivery of a      *)
(* NOTIFY by HHttpHandler::msgIO.                                          *)
(***************************************************************************)
\* The state variables of the services of the hosted device, with the
\* values each of them takes; every variable starts at 0.
StateVariables ==
    {[name |-> "A", scpdUrl |-> "x", eventingType |-> "UnicastOnly",
      allowed |-> {0, 1}],
     [name |-> "B", scpdUrl |-> "x", eventingType |-> "UnicastAndMulticast",
      allowed |-> {0, 2}],
     [name |-> "C", scpdUrl |-> "x", eventingType |-> "NoEvents",
      allowed |-> {0, 1}],
     [name |-> "D", scpdUrl |-> "y", eventingType |-> "UnicastOnly",
      allowed |-> {0, 1}],
     [name |-> "E", scpdUrl |-> "z", eventingType |-> "NoEvents",
      allowed |-> {0}]}

StateVariableNames == {v.name : v \in StateVariables}

\* What the peer of a NOTIFY does: it refuses the connection, it does not
\* answer in time, or it answers with a status line.
StatusCodes == {200, 204, 404}

NotifyOutcomes ==
    {[kind |-> "refused"], [kind |-> "timeout"]}
        \cup {[kind |-> "response", statusCode |-> c] : c \in StatusCodes}

VARIABLES
    values,     \* HStateVariable::value(), by the name of the variable
    pending,    \* the subscribers with messages that are not delivered yet
    missed,     \* the subscribers a state change passed by before their
                \* initial notify
    evOp,       \* the operation of the last step on the event messages
    evSent      \* the NOTIFY messages of the last step: sid, SEQ and body

evVars == <<values, pending, missed, evOp, evSent>>

EvInit ==
    /\ values = [n \in StateVariableNames |-> 0]
    /\ pending = {}
    /\ missed = {}
    /\ evOp = [op |-> "none"]
    /\ evSent = << >>

\* HService::stateVariables()
stateVariables(service) ==
    {v \in StateVariables : v.scpdUrl = service.scpdUrl}

\* The mutated getCurrentValues: no variable is skipped.
getCurrentValues_All(vals, service) ==
    {[name |-> v.name, value |-> vals[v.name]] : v \in stateVariables(service)}

\* getCurrentValues(QByteArray& msgBody, const HService*): the property set
\* has one e:property for every state variable of the service but the ones
\* of eventing type NoEvents, with the value the variable has now.
getCurrentValues(vals, service) ==
    {[name |-> v.name, value |-> vals[v.name]] :
        v \in {w \in stateVariables(service) : w.eventingType # "NoEvents"}}

\* The messages a step hands to the subscribers of enSent': the body is
\* built once and every subscriber gets it under its own SEQ, which is 0
\* for the initial notify (1 stands for every later number).
messages(sids, seqOf, body) ==
    [i \in 1..Len(sids) |->
        [sid |-> sids[i], seq |-> seqOf[sids[i]].seq, body |-> body]]

\* HHttpHandler::msgIO(MessagingInfo&, const NotifyRequest&): the request
\* is sent and the response header is received; the call returns when the
\* status code is 200 and throws otherwise.
msgIO(outcome) ==
    CASE outcome.kind = "refused" -> "HSocketException"
      [] outcome.kind = "timeout" -> "HTimeoutException"
      [] outcome.kind = "response" ->
            IF outcome.statusCode = 200
            THEN "returned" ELSE "HOperationFailedException"

\* addSubscriber, seen from the event messages.
EvAddSubscriber ==
    /\ Cardinality(Sids \ freeSids) < MaxEventSubscribers
    /\ AddSubscriber
    /\ evOp' = [op |-> "addSubscriber"]
    /\ evSent' = << >>
    /\ UNCHANGED <<values, pending, missed>>

\* initialNotify(rc, mi): the body is built from the values of the service
\* of the subscriber and handed to ServiceEventSubscriber::initialNotify.
EvInitialNotify ==
    /\ InitialNotify
    /\ evOp' = [op |-> "initialNotify"]
    /\ evSent' = messages(enSent', subscribers,
                     getCurrentValues(values, subscribers[enOp'.rc].service))
    /\ pending' = pending \cup Range(enSent')
    /\ UNCHANGED <<values, missed>>

\* HService updates a state variable; for an evented variable it calls
\* stateChanged(source), which builds the body with getCurrentValues and
\* hands it to the interested subscribers.
EvValueChanged ==
    \E var \in StateVariables : \E value \in var.allowed :
        /\ value # values[var.name]
        /\ values' = [values EXCEPT ![var.name] = value]
        /\ evOp' = [op |-> "valueChanged", name |-> var.name]
        /\ IF var.eventingType = "NoEvents"
           THEN /\ UNCHANGED <<enVars, pending, missed>>
                /\ evSent' = << >>
           ELSE /\ StateChanged
                /\ enOp'.source.scpdUrl = var.scpdUrl
                /\ evSent' = messages(enSent', subscribers,
                                 getCurrentValues(values', enOp'.source))
                /\ pending' = pending \cup Range(enSent')
                /\ missed' = missed \cup
                       {s \in Range(m_remoteClients) :
                           /\ subscribers[s].seq = 0
                           /\ ~subscribers[s].expired
                           /\ isSameService(subscribers[s].service,
                                            enOp'.source)}

\* ServiceEventSubscriber sends the next message of its queue with msgIO;
\* when msgIO throws, the subscriber marks itself expired and drops what
\* it has queued.
EvDeliver ==
    \E sid \in pending, outcome \in NotifyOutcomes, more \in BOOLEAN :
        LET result == msgIO(outcome)
        IN /\ enResult # "aborted"
           /\ evOp' = [op |-> "deliver", sid |-> sid, outcome |-> outcome,
                       result |-> result]
           /\ IF result = "returned"
              THEN /\ pending' = IF more THEN pending ELSE pending \ {sid}
                   /\ UNCHANGED subscribers
              ELSE /\ pending' = pending \ {sid}
                   /\ subscribers' = [subscribers EXCEPT ![sid] = expire(@)]
           /\ enOp' = [op |-> "deliver", sid |-> sid]
           /\ enResult' = "void"
           /\ enSent' = << >>
           /\ evSent' = << >>
           /\ UNCHANGED <<m_remoteClients, m_shutdown, shutdownPc, values,
                          missed>>

(***************************************************************************)
(* HHttpHandler (http_handler_p.cpp), sending: send(mi, header, body)      *)
(* frames the message and hands header and body to send(mi, data) or to    *)
(* sendChunked(mi, data), which write to the socket until the data is out. *)
(* A step of the model is one call of QTcpSocket::write with what the      *)
(* socket made of it.                                                      *)
(***************************************************************************)
\* The bytes of a message body of n bytes.
bodyOf(n) == SubSeq(<<"a", ";", "\r", "\n", "b", "0">>, 1, n)

Bodies == {bodyOf(n) : n \in 0..MaxBody}

\* The values of MessagingInfo::chunkedInfo().m_maxChunkSize.
ChunkSizes == {0, 1, 2}

\* The headers the callers of send(mi, header, body) build: requests
\* and responses with no field about the body, and the response to
\* SUBSCRIBE, which has Content-Length 0 and no body.
NoFraming == [n \in {"SID"} |-> "uuid"]

SubscribeResponseHeader == [n \in {"SID", "content-length"} |->
                               IF n = "SID" THEN "uuid" ELSE <<"0">>]

\* QHttpHeader::setValue
setValue(hdr, name, value) ==
    [n \in DOMAIN hdr \cup {name} |-> IF n = name THEN value ELSE hdr[n]]

\* The digits of QByteArray::setNum and QString::number in a base.
Digit(d) ==
    <<"0", "1", "2", "3", "4", "5", "6", "7",
      "8", "9", "a", "b", "c", "d", "e", "f">>[d + 1]

RECURSIVE setNum(_, _)
setNum(n, base) ==
    IF n < base THEN <<Digit(n)>>
    ELSE setNum(n \div base, base) \o <<Digit(n % base)>>

\* QHttpHeader::setContentLength
setContentLength(hdr, len) == setValue(hdr, "content-length", setNum(len, 10))

\* QHttpHeader::toString: the lines of the header, closed by an empty line.
toString(hdr) == <<"h", "\r", "\n", "\r", "\n">>

\* QByteArray::indexOf, counted from 0; -1 when the pattern is not there.
indexOf(s, pattern) ==
    LET at == {i \in 1..(Len(s) - Len(pattern) + 1) :
                  SubSeq(s, i, i + Len(pattern) - 1) = pattern}
    IN IF at = {} THEN -1 ELSE (CHOOSE i \in at : \A j \in at : i <= j) - 1

qMin(a, b) == IF a < b THEN a ELSE b

\* How often a write that takes no byte is repeated.
RetryLimit == 100

VARIABLES
    sendHdr,         \* the header send(mi, header, body) was given, as left
    sendBody,        \* the body it was given
    maxChunkSize,    \* mi.chunkedInfo().m_maxChunkSize
    sendPc,          \* where the call is
    index,           \* how far the data is written
    errorThreshold,  \* the writes of the running loop that took no byte
    wire             \* the bytes the socket has taken

sendVars == <<sendHdr, sendBody, maxChunkSize, sendPc, index, errorThreshold,
              wire>>

SendInit ==
    /\ sendHdr = NoFraming
    /\ sendBody = << >>
    /\ maxChunkSize = 0
    /\ sendPc = "idle"
    /\ index = 0
    /\ errorThreshold = 0
    /\ wire = << >>

\* The mutated test of send(mi, header, body): a body as long as the
\* largest chunk is chunked too.
chunked_AtLimit(max, data) == max > 0 /\ Len(data) >= max

\* send(mi, header, body): the test for chunked transfer.
chunked(max, data) == max > 0 /\ Len(data) > max

\* send(mi, header, body): the header as it goes out.
framed(hdr, keepAlive, minorVersion, max, data) ==
    LET dated == setValue(hdr, "DATE", "now")
        closed == IF ~keepAlive /\ minorVersion = 1
                  THEN setValue(dated, "Connection", "close") ELSE dated
        hosted == setValue(closed, "HOST", "host")
    IN IF chunked(max, data)
       THEN setValue(hosted, "Transfer-Encoding", "chunked")
       ELSE setContentLength(hosted, Len(data))

\* The data send(mi, data) and sendChunked(mi, data) are given.
sendData == toString(sendHdr) \o sendBody

\* sendChunked: endOfHdr
endOfHdr == indexOf(sendData, <<"\r", "\n", "\r", "\n">>) + 4

\* send(MessagingInfo&, QHttpHeader&, const QByteArray&), up to the call
\* of send(mi, msg) or sendChunked(mi, msg).
Send ==
    /\ sendPc = "idle"
    /\ \E hdr \in {NoFraming, SubscribeResponseHeader}, data \in Bodies,
          max \in ChunkSizes, keepAlive \in BOOLEAN, minorVersion \in {0, 1} :
        /\ hdr = SubscribeResponseHeader => data = << >>
        /\ sendHdr' = framed(hdr, keepAlive, minorVersion, max, data)
        /\ sendBody' = data
        /\ maxChunkSize' = max
        /\ sendPc' = IF chunked(max, data) THEN "chunkedHeader" ELSE "send"
    /\ index' = 0
    /\ errorThreshold' = 0
    /\ wire' = << >>

\* The part of the data the loop of send(mi, data) writes: all of it, or
\* the header when sendChunked calls send(mi, data.left(endOfHdr)).
sendSize == IF sendPc = "send" THEN Len(sendData) ELSE endOfHdr

\* What follows the loop of send(mi, data).
afterSend ==
    IF sendPc = "send" THEN "returned"
    ELSE IF endOfHdr < Len(sendData) THEN "sizeLine" ELSE "eof"

\* send(MessagingInfo&, const QByteArray&): one turn of the loop.
SendWrite ==
    /\ sendPc \in {"send", "chunkedHeader"}
    /\ \E connected \in BOOLEAN, valid \in BOOLEAN,
          bytesWritten \in -1..(sendSize - index) :
        IF ~connected \/ bytesWritten < 0
        THEN /\ sendPc' = "HSocketException"
             /\ UNCHANGED <<index, errorThreshold, wire>>
        ELSE IF bytesWritten = 0
        THEN IF ~valid \/ errorThreshold > RetryLimit
             THEN /\ sendPc' = "HSocketException"
                  /\ UNCHANGED <<index, errorThreshold, wire>>
             ELSE /\ errorThreshold' = errorThreshold + 1
                  /\ UNCHANGED <<sendPc, index, wire>>
        ELSE /\ wire' = wire \o SubSeq(sendData, index + 1,
                                       index + bytesWritten)
             /\ IF index + bytesWritten < sendSize
                THEN /\ index' = index + bytesWritten
                     /\ UNCHANGED <<sendPc, errorThreshold>>
                ELSE /\ sendPc' = afterSend
                     /\ index' = IF sendPc = "send"
                                 THEN index + bytesWritten ELSE endOfHdr
                     /\ errorThreshold' = IF sendPc = "send"
                                          THEN errorThreshold ELSE 0
    /\ UNCHANGED <<sendHdr, sendBody, maxChunkSize>>

\* sendChunked: dataToSendSize
dataToSendSize == qMin(Len(sendData) - index, maxChunkSize)

\* sendChunked: the size line of the chunk.
sizeLine == setNum(dataToSendSize, 16) \o <<"\r", "\n">>

\* sendChunked: the head of the loop and the write of the size line.  With
\* errorThreshold at the limit the loop that writes the chunk is not
\* entered and bytesWritten is still the length of the size line.
SendSizeLine ==
    /\ sendPc = "sizeLine"
    /\ \E connected \in BOOLEAN, written \in BOOLEAN :
        IF ~connected \/ ~written
        THEN /\ sendPc' = "HSocketException"
             /\ UNCHANGED <<index, wire>>
        ELSE /\ wire' = wire \o sizeLine
             /\ IF errorThreshold < RetryLimit
                THEN /\ sendPc' = "chunk"
                     /\ UNCHANGED index
                ELSE /\ sendPc' = "crlf"
                     /\ index' = index + Len(sizeLine)
    /\ UNCHANGED <<sendHdr, sendBody, maxChunkSize, errorThreshold>>

\* sendChunked: one write of the chunk, and what follows the loop when it
\* is left.
SendChunk ==
    /\ sendPc = "chunk"
    /\ \E valid \in BOOLEAN, bytesWritten \in -1..dataToSendSize :
        IF bytesWritten < 0 \/ (bytesWritten = 0 /\ ~valid)
        THEN /\ sendPc' = "HSocketException"
             /\ UNCHANGED <<index, errorThreshold, wire>>
        ELSE IF bytesWritten = 0
        THEN /\ errorThreshold' = errorThreshold + 1
             /\ sendPc' = IF errorThreshold + 1 < RetryLimit
                          THEN "chunk" ELSE "crlf"
             /\ UNCHANGED <<index, wire>>
        ELSE /\ wire' = wire \o SubSeq(sendData, index + 1,
                                       index + bytesWritten)
             /\ index' = index + bytesWritten
             /\ sendPc' = "crlf"
             /\ UNCHANGED errorThreshold
    /\ UNCHANGED <<sendHdr, sendBody, maxChunkSize>>

\* sendChunked: the CRLF after the chunk, and the test of the loop.
SendCrlf ==
    /\ sendPc = "crlf"
    /\ \E written \in BOOLEAN :
        IF ~written
        THEN /\ sendPc' = "HSocketException"
             /\ UNCHANGED wire
        ELSE /\ wire' = wire \o <<"\r", "\n">>
             /\ sendPc' = IF index < Len(sendData) THEN "sizeLine" ELSE "eof"
    /\ UNCHANGED <<sendHdr, sendBody, maxChunkSize, index, errorThreshold>>

\* sendChunked: the last chunk; what write returns is not looked at.
SendEof ==
    /\ sendPc = "eof"
    /\ \E written \in BOOLEAN :
        wire' = IF written THEN wire \o <<"0", "\r", "\n">> ELSE wire
    /\ sendPc' = "returned"
    /\ UNCHANGED <<sendHdr, sendBody, maxChunkSize, index, errorThreshold>>

\* The caller goes on after the return or the exception.
SendDone ==
    /\ sendPc \in {"returned", "HSocketException"}
    /\ sendPc' = "idle"
    /\ sendHdr' = NoFraming
    /\ sendBody' = << >>
    /\ maxChunkSize' = 0
    /\ index' = 0
    /\ errorThreshold' = 0
    /\ wire' = << >>

(***************************************************************************)
(* HHttpHandler, receiving a chunked body: readChunkedRequest over the     *)
(* bytes that follow the header, when all of them are there.               *)
(***************************************************************************)
\* readChunkedRequest: the loop that reads the size line.  A byte other
\* than CR is taken, a CR is taken with the byte after it, and the line
\* ends when that byte is LF; 0 when the bytes run out before.
RECURSIVE endOfLine(_, _)
endOfLine(s, i) ==
    IF i > Len(s) THEN 0
    ELSE IF s[i] # "\r" THEN endOfLine(s, i + 1)
    ELSE IF i + 1 > Len(s) THEN 0
    ELSE IF s[i + 1] = "\n" THEN i + 1
    ELSE endOfLine(s, i + 2)

\* The value of a hexadecimal digit, -1 for another byte.
hexValue(ch) ==
    LET ds == {d \in 0..15 : Digit(d) = ch}
    IN IF ds = {} THEN -1 ELSE CHOOSE d \in ds : TRUE

\* QByteArray::toInt(&ok, 16)
RECURSIVE toInt(_)
toInt(s) ==
    IF s = << >> THEN [ok |-> FALSE, value |-> 0]
    ELSE LET last == hexValue(s[Len(s)])
             front == IF Len(s) = 1 THEN [ok |-> TRUE, value |-> 0]
                      ELSE toInt(SubSeq(s, 1, Len(s) - 1))
         IN IF last < 0 \/ ~front.ok THEN [ok |-> FALSE, value |-> 0]
            ELSE [ok |-> TRUE, value |-> front.value * 16 + last]

\* readChunkedRequest(MessagingInfo&) over the bytes s, with retVal read
\* so far: the size line up to ';' or to its CRLF, the chunk, the two
\* bytes after it, and so on up to the chunk of size 0.  "incomplete"
\* when the bytes end before the chunk of size 0.
RECURSIVE readChunkedRequest(_, _)
readChunkedRequest(s, retVal) ==
    LET end == endOfLine(s, 1)
        buf == SubSeq(s, 1, end)
        semicolon == indexOf(buf, <<";">>)
        endOfSize == IF semicolon < 0 THEN Len(buf) - 2 ELSE semicolon
        chunkSize == toInt(SubSeq(buf, 1, endOfSize))
        rest == SubSeq(s, end + 1, Len(s))
    IN IF end = 0 THEN [kind |-> "incomplete", body |-> retVal]
       ELSE IF ~chunkSize.ok \/ chunkSize.value < 0
       THEN [kind |-> "HSocketException", body |-> retVal]
       ELSE IF chunkSize.value = 0
       THEN [kind |-> "returned", body |-> retVal]
       ELSE IF Len(rest) < chunkSize.value
       THEN [kind |-> "incomplete", body |-> retVal]
       ELSE readChunkedRequest(
                SubSeq(rest, chunkSize.value + 3, Len(rest)),
                retVal \o SubSeq(rest, 1, chunkSize.value))

(***************************************************************************)
(* HHttpHandler, receiving: receive(mi, hdr) reads the header and then     *)
(* the body with readRequestData, readChunkedRequest or readAll.  A step   *)
(* of the model is one turn of the loop that is running, with the wait     *)
(* for data it starts with; times are in milliseconds.  The bytes of the   *)
(* peer come in units: the header, the bytes of a body with                *)
(* Content-Length, and for a chunked body the size line, the data and the  *)
(* CRLF of each chunk and the size line of the last chunk.                 *)
(***************************************************************************)
\* The time a read goes on after the flag of shutdown() is set.
ShutdownGrace == 500
\* waitForReadyRead in the loops of receive, readRequestData and of the
\* chunk data.
ReadWait == 50
\* waitForReadyRead before a size line.
SizeLineWait == 500
\* The time readChunkedRequest goes on since the last chunk.
ChunkedLimit == 15000

\* The values of mi.receiveTimeoutForNoData(); negative for no timeout.
Timeouts == {-1, 3000}

\* What the header of the message says about the body.
Framings == {"Content-Length", "chunked", "none", "invalid", "both"}

\* The units of a message with a body of n bytes or of n chunks.
unitsOf(framing, n) ==
    <<"header">> \o
    CASE framing = "Content-Length" -> [i \in 1..n |-> "byte"]
      [] framing = "chunked" ->
            [i \in 1..(3 * n) |-> <<"size", "data", "crlf">>[((i - 1) % 3) + 1]]
                \o <<"last">>
      [] OTHER -> [i \in 1..n |-> "byte"]

VARIABLES
    m_shuttingDown,  \* volatile int m_shuttingDown
    recvIn,          \* the message of the peer and the settings of mi
    recvPc,          \* where receive is
    socketState,     \* mi.socket().state()
    arrived,         \* the units that have reached the socket
    taken,           \* the units read from the socket
    elapsed,         \* stopWatch.elapsed()
    retVal,          \* the bytes (chunks) of the body read so far
    sinceShutdown    \* the time receive has run since the flag was set

recvVars == <<m_shuttingDown, recvIn, recvPc, socketState, arrived, taken,
              elapsed, retVal, sinceShutdown>>

NoMessage == [framing |-> "none", size |-> 0, timeout |-> -1,
              asserts |-> TRUE]

\* HHttpHandler::HHttpHandler
RecvInit ==
    /\ m_shuttingDown = 0
    /\ recvIn = NoMessage
    /\ recvPc = "idle"
    /\ socketState = "ConnectedState"
    /\ arrived = 0
    /\ taken = 0
    /\ elapsed = 0
    /\ retVal = 0
    /\ sinceShutdown = 0

units == unitsOf(recvIn.framing, recvIn.size)

\* The time from which on a loop with the three tests treats every
\* elapsed time alike.
elapsedCap ==
    IF recvPc = "sizeLine" THEN ChunkedLimit
    ELSE (IF recvIn.timeout > ShutdownGrace
          THEN recvIn.timeout ELSE ShutdownGrace) + ReadWait

\* The clocks after a wait of ms milliseconds.
passed(clock, ms, cap) == qMin(clock + ms, cap)

\* The tests at the head of the loops of receive, readRequestData and of
\* the chunk data, in their order.
testsOfLoop(dataAvailable, time) ==
    IF m_shuttingDown # 0 /\ (~dataAvailable \/ time > ShutdownGrace)
    THEN "HShutdownInProgressException"
    ELSE IF ~dataAvailable /\ socketState = "UnconnectedState"
    THEN "HSocketException"
    ELSE IF time >= recvIn.timeout /\ recvIn.timeout >= 0
    THEN "HTimeoutException"
    ELSE IF ~dataAvailable THEN "continue" ELSE "read"

\* The units that can reach the socket during a wait: none when some are
\* there already (the wait is not started) or the peer has closed.
arrivals ==
    IF arrived > taken THEN {0}
    ELSE IF socketState = "UnconnectedState" THEN {0}
    ELSE 0..(Len(units) - arrived)

\* The time a turn of a loop takes: the wait, when no data is there.
waited(ms) == IF arrived > taken THEN 0 ELSE ms

\* The caller calls receive(mi, hdr) for a message of the peer.
Receive ==
    /\ recvPc = "idle"
    /\ \E framing \in Framings, size \in 1..MaxChunks, timeout \in Timeouts,
          asserts \in BOOLEAN :
        /\ framing # "chunked" => asserts
        /\ recvIn' = [framing |-> framing, size |-> size,
                      timeout |-> timeout, asserts |-> asserts]
    /\ recvPc' = "header"
    /\ UNCHANGED <<m_shuttingDown, socketState, arrived, taken, elapsed,
                   retVal, sinceShutdown>>

\* receive(mi, hdr): what follows the header.
afterHeader ==
    CASE recvIn.framing = "chunked" -> "sizeLine"
      [] recvIn.framing = "Content-Length" -> "data"
      [] OTHER -> "returned"

\* receive(MessagingInfo&, Header&): one turn of the loop that reads the
\* header, and the choice of how the body is read.  A header that is not
\* valid and a chunked header with Content-Length return an empty body;
\* with neither field the body is what readAll finds.
ReceiveHeader ==
    /\ recvPc = "header"
    /\ \E n \in arrivals :
        LET time == passed(elapsed, waited(ReadWait), elapsedCap)
            test == testsOfLoop(arrived + n > taken, time)
        IN /\ arrived' = arrived + n
           /\ sinceShutdown' =
                 IF m_shuttingDown # 0
                 THEN passed(sinceShutdown, waited(ReadWait), ChunkedLimit)
                 ELSE 0
           /\ IF test = "continue"
              THEN /\ elapsed' = time
                   /\ UNCHANGED <<recvPc, taken, retVal>>
              ELSE IF test = "read"
              THEN /\ recvPc' = afterHeader
                   /\ elapsed' = 0
                   /\ taken' = IF recvIn.framing = "none"
                               THEN arrived + n ELSE taken + 1
                   /\ retVal' = IF recvIn.framing = "none"
                                THEN arrived + n - (taken + 1) ELSE 0
              ELSE /\ recvPc' = test
                   /\ elapsed' = time
                   /\ UNCHANGED <<taken, retVal>>
    /\ UNCHANGED <<m_shuttingDown, recvIn, socketState>>

\* readRequestData(MessagingInfo&, qint64): one turn of the loop; the
\* inner loop reads what is there.
ReadRequestData ==
    /\ recvPc = "data"
    /\ \E n \in arrivals :
        LET time == passed(elapsed, waited(ReadWait), elapsedCap)
            test == testsOfLoop(arrived + n > taken, time)
        IN /\ arrived' = arrived + n
           /\ sinceShutdown' =
                 IF m_shuttingDown # 0
                 THEN passed(sinceShutdown, waited(ReadWait), ChunkedLimit)
                 ELSE 0
           /\ IF test = "continue"
              THEN /\ elapsed' = time
                   /\ UNCHANGED <<recvPc, taken, retVal>>
              ELSE IF test = "read"
              THEN /\ taken' = arrived + n
                   /\ retVal' = retVal + (arrived + n - taken)
                   /\ elapsed' = IF m_shuttingDown # 0 THEN time ELSE 0
                   /\ recvPc' = IF retVal + (arrived + n - taken)
                                       >= recvIn.size
                                THEN "returned" ELSE "data"
              ELSE /\ recvPc' = test
                   /\ elapsed' = time
                   /\ UNCHANGED <<taken, retVal>>
    /\ UNCHANGED <<m_shuttingDown, recvIn, socketState>>

\* readChunkedRequest: the head of the outer loop, the wait for a size
\* line and the read of the line.  The flag of shutdown(), the timeout of
\* mi and the state of the socket are not looked at; after ChunkedLimit
\* the loop ends and what is read so far is returned.  The line is read
\* inside Q_ASSERT: a build without assertions does not read it and does
\* not leave the loop over its bytes.
ReadSizeLine ==
    /\ recvPc = "sizeLine"
    /\ IF elapsed >= ChunkedLimit
       THEN /\ recvPc' = "returned"
            /\ UNCHANGED <<arrived, taken, elapsed, sinceShutdown>>
       ELSE \E n \in arrivals :
            /\ arrived' = arrived + n
            /\ elapsed' = passed(elapsed, waited(SizeLineWait), ChunkedLimit)
            /\ sinceShutdown' =
                  IF m_shuttingDown # 0
                  THEN passed(sinceShutdown, waited(SizeLineWait),
                              ChunkedLimit)
                  ELSE 0
            /\ IF arrived + n <= taken
               THEN UNCHANGED <<recvPc, taken>>
               ELSE IF ~recvIn.asserts
               THEN /\ recvPc' = "spinning"
                    /\ UNCHANGED taken
               ELSE /\ taken' = taken + 1
                    /\ recvPc' =
                          CASE units[taken + 1] = "size" -> "chunk"
                            [] units[taken + 1] = "last" -> "returned"
                            [] OTHER -> "HSocketException"
    /\ UNCHANGED <<m_shuttingDown, recvIn, socketState, retVal>>

\* readChunkedRequest: one turn of the loop that reads the data of a
\* chunk, then the two getChar for the CRLF (they read it when it is
\* there) and the restart of the stop watch.
ReadChunk ==
    /\ recvPc = "chunk"
    /\ \E n \in arrivals :
        LET time == passed(elapsed, waited(ReadWait), elapsedCap)
            test == testsOfLoop(arrived + n > taken, time)
        IN /\ arrived' = arrived + n
           /\ sinceShutdown' =
                 IF m_shuttingDown # 0
                 THEN passed(sinceShutdown, waited(ReadWait), ChunkedLimit)
                 ELSE 0
           /\ IF test = "continue"
              THEN /\ elapsed' = time
                   /\ UNCHANGED <<recvPc, taken, retVal>>
              ELSE IF test = "read"
              THEN /\ taken' = IF arrived + n >= taken + 2
                               THEN taken + 2 ELSE taken + 1
                   /\ retVal' = retVal + 1
                   /\ elapsed' = 0
                   /\ recvPc' = "sizeLine"
              ELSE /\ recvPc' = test
                   /\ elapsed' = time
                   /\ UNCHANGED <<taken, retVal>>
    /\ UNCHANGED <<m_shuttingDown, recvIn, socketState>>

\* The loop over the bytes of a size line that is never read goes on.
Spinning ==
    /\ recvPc = "spinning"
    /\ elapsed < ChunkedLimit
    /\ elapsed' = passed(elapsed, SizeLineWait, ChunkedLimit)
    /\ sinceShutdown' =
          IF m_shuttingDown # 0
          THEN passed(sinceShutdown, SizeLineWait, ChunkedLimit) ELSE 0
    /\ UNCHANGED <<m_shuttingDown, recvIn, recvPc, socketState, arrived,
                   taken, retVal>>

\* HHttpHandler::shutdown(bool), first statement.
HttpShutdown ==
    /\ m_shuttingDown = 0
    /\ m_shuttingDown' = 1
    /\ UNCHANGED <<recvIn, recvPc, socketState, arrived, taken, elapsed,
                   retVal, sinceShutdown>>

\* The peer closes the connection.
PeerCloses ==
    /\ recvPc \notin {"idle", "returned", "HSocketException",
                      "HTimeoutException", "HShutdownInProgressException"}
    /\ socketState = "ConnectedState"
    /\ socketState' = "UnconnectedState"
    /\ UNCHANGED <<m_shuttingDown, recvIn, recvPc, arrived, taken, elapsed,
                   retVal, sinceShutdown>>

\* The caller goes on after the return or the exception; the next message
\* comes over a new connection.
ReceiveDone ==
    /\ recvPc \in {"returned", "HSocketException", "HTimeoutException",
                   "HShutdownInProgressException"}
    /\ recvPc' = "idle"
    /\ recvIn' = NoMessage
    /\ socketState' = "ConnectedState"
    /\ arrived' = 0
    /\ taken' = 0
    /\ elapsed' = 0
    /\ retVal' = 0
    /\ sinceShutdown' = 0
    /\ UNCHANGED m_shuttingDown

(***************************************************************************)
(* HHttpHandler::responseActionFailed: the response to an action that      *)
(* failed, built with checkForActionError.                                 *)
(***************************************************************************)
\* The return values of HAction the error table names.
HActionCodes ==
    [InvalidArgs |-> 402, ActionFailed |-> 501, ArgumentValueInvalid |-> 600,
     ArgumentValueOutOfRange |-> 601, OptionalActionNotImplemented |-> 602,
     OutOfMemory |-> 603, HumanInterventionRequired |-> 604,
     StringArgumentTooLong |-> 605]

\* The error codes an action hands back: the ones of HAction and codes of
\* a vendor.
ActionErrCodes == {-1, 0, 200, 899} \cup 399..(606 + MaxVendorCodes)

Descriptions == {"", "no such object"}

VARIABLES
    httpResponse    \* what responseActionFailed hands to response()

actVars == <<httpResponse>>

NoResponse == [statusCode |-> 0]

ActInit == httpResponse = NoResponse

\* QString::number(qint32)
numberOf(n) ==
    IF n < 0 THEN <<"-">> \o setNum(0 - n, 10) ELSE setNum(n, 10)

\* The mutated table: a failed action is answered with status 500.
checkForActionError_Plain500(actionRetVal) ==
    [httpStatusCode |-> 500, httpReasonPhrase |-> "Internal Server Error",
     soapFault |-> "Client"]

\* checkForActionError(actionRetVal, soapFault, httpStatusCode,
\* httpReasonPhrase)
checkForActionError(actionRetVal) ==
    IF actionRetVal = HActionCodes.InvalidArgs
    THEN [httpStatusCode |-> 402, httpReasonPhrase |-> "Invalid Args",
          soapFault |-> "Client"]
    ELSE IF actionRetVal = HActionCodes.ActionFailed
    THEN [httpStatusCode |-> 501, httpReasonPhrase |-> "Action Failed",
          soapFault |-> "Client"]
    ELSE IF actionRetVal = HActionCodes.ArgumentValueInvalid
    THEN [httpStatusCode |-> 600,
          httpReasonPhrase |-> "Argument Value Invalid",
          soapFault |-> "Client"]
    ELSE IF actionRetVal = HActionCodes.ArgumentValueOutOfRange
    THEN [httpStatusCode |-> 601,
          httpReasonPhrase |-> "Argument Value Out of Range",
          soapFault |-> "Client"]
    ELSE IF actionRetVal = HActionCodes.OptionalActionNotImplemented
    THEN [httpStatusCode |-> 602,
          httpReasonPhrase |-> "Optional Action Not Implemented",
          soapFault |-> "Client"]
    ELSE IF actionRetVal = HActionCodes.OutOfMemory
    THEN [httpStatusCode |-> 603, httpReasonPhrase |-> "Out of Memory",
          soapFault |-> "Client"]
    ELSE IF actionRetVal = HActionCodes.HumanInterventionRequired
    THEN [httpStatusCode |-> 604,
          httpReasonPhrase |-> "Human Intervention Required",
          soapFault |-> "Client"]
    ELSE IF actionRetVal = HActionCodes.StringArgumentTooLong
    THEN [httpStatusCode |-> 605,
          httpReasonPhrase |-> "String Argument Too Long",
          soapFault |-> "Client"]
    ELSE [httpStatusCode |-> actionRetVal,
          httpReasonPhrase |-> numberOf(actionRetVal),
          soapFault |-> "Client"]

\* responseActionFailed(mi, actionErrCode, description): the status line
\* and the SOAP fault handed to response(mi, status, reason, body).
ResponseActionFailed ==
    \E actionErrCode \in ActionErrCodes, description \in Descriptions :
        LET checked == checkForActionError(actionErrCode)
        IN httpResponse' =
              [actionErrCode |-> actionErrCode,
               description |-> description,
               statusCode |-> checked.httpStatusCode,
               reasonPhrase |-> checked.httpReasonPhrase,
               faultCode |-> checked.soapFault,
               faultString |-> "UPnPError",
               errorCode |-> actionErrCode,
               errorDescription |-> description]

(***************************************************************************)
(* The device build tasks of the control point and the device storages.    *)
(* A discovery message for a device the storage does not hold starts a     *)
(* build task on a worker thread; the task fetches and parses the          *)
(* descriptions, commits its tree under m_deviceCreationMutex and reports  *)
(* to deviceModelBuildDone on the thread of the control point.             *)
(***************************************************************************)
\* The UDNs device descriptions carry.
Udns == {"uuid:1", "uuid:2"}

\* The build tasks there can be.
TaskIds == 1..MaxTasks

NoTask == [udn |-> "none", pc |-> "none"]

VARIABLES
    cpStorage,            \* the root devices of the control point, by UDN
    m_deviceBuildTasks,   \* the build tasks, by the order of their creation
    rootDeviceOnline,     \* how often the signal was emitted, per UDN
    cpCommitted,          \* how often a tree was committed, per UDN
    buildOp,              \* the last step of a build task
    hostConfigurations,   \* the UDNs of the descriptions the host is given
    hostStorage,          \* the root devices of the device host, by UDN
    hostCreated           \* how far the loop of createRootDevices() has come

buildVars == <<cpStorage, m_deviceBuildTasks, rootDeviceOnline, cpCommitted,
               buildOp, hostConfigurations, hostStorage, hostCreated>>

BuildInit ==
    /\ cpStorage = << >>
    /\ m_deviceBuildTasks = [t \in TaskIds |-> NoTask]
    /\ rootDeviceOnline = [u \in Udns |-> 0]
    /\ cpCommitted = [u \in Udns |-> 0]
    /\ buildOp = [op |-> "none"]
    /\ hostConfigurations = << >>
    /\ hostStorage = << >>
    /\ hostCreated = 0

\* DeviceStorage::searchDeviceByUdn
searchDeviceByUdn(storage, udn) == \E i \in 1..Len(storage) : storage[i] = udn

\* The mutated storage: a tree is stored whatever the storage holds.
addRootDevice_Unchecked(storage, udn) == Append(storage, udn)

\* DeviceStorage::addRootDevice: the storage is keyed by UDN and takes a
\* tree only when it holds none with the UDN.
addRootDevice(storage, udn) ==
    IF searchDeviceByUdn(storage, udn) THEN storage ELSE Append(storage, udn)

\* shouldFetch: a device the storage holds is not fetched again.
shouldFetch(udn) == ~searchDeviceByUdn(cpStorage, udn)

\* The tasks not yet created.
freeTasks == {t \in TaskIds : m_deviceBuildTasks[t] = NoTask}

\* processDeviceDiscovery: an ssdp:alive or a discovery response arrives.
ProcessDeviceDiscovery ==
    /\ \E udn \in Udns :
        /\ shouldFetch(udn)
        /\ freeTasks # {}
        /\ LET t == CHOOSE x \in freeTasks : \A y \in freeTasks : x <= y
           IN /\ m_deviceBuildTasks' = [m_deviceBuildTasks EXCEPT ![t] =
                                           [udn |-> udn, pc |-> "fetching"]]
              /\ buildOp' = [op |-> "discovery", task |-> t]
    /\ UNCHANGED <<cpStorage, rootDeviceOnline, cpCommitted,
                   hostConfigurations, hostStorage, hostCreated>>

\* DeviceBuildTask::run, steps 1 to 3: the descriptions are fetched and
\* parsed into a pending tree.
TaskFetched ==
    /\ \E t \in TaskIds :
        /\ m_deviceBuildTasks[t].pc = "fetching"
        /\ m_deviceBuildTasks' = [m_deviceBuildTasks EXCEPT ![t].pc = "pending"]
        /\ buildOp' = [op |-> "fetched", task |-> t]
    /\ UNCHANGED <<cpStorage, rootDeviceOnline, cpCommitted,
                   hostConfigurations, hostStorage, hostCreated>>

\* DeviceBuildTask::run, step 4, under m_deviceCreationMutex: a task that
\* finds a tree with its UDN in the storage aborts, the others commit.
TaskCommit ==
    /\ \E t \in TaskIds :
        LET udn == m_deviceBuildTasks[t].udn
            storage == addRootDevice(cpStorage, udn)
        IN /\ m_deviceBuildTasks[t].pc = "pending"
           /\ cpStorage' = storage
           /\ IF storage = cpStorage
              THEN /\ m_deviceBuildTasks' =
                          [m_deviceBuildTasks EXCEPT ![t].pc = "aborted"]
                   /\ UNCHANGED cpCommitted
              ELSE /\ m_deviceBuildTasks' =
                          [m_deviceBuildTasks EXCEPT ![t].pc = "committed"]
                   /\ cpCommitted' = [cpCommitted EXCEPT ![udn] = @ + 1]
           /\ buildOp' = [op |-> "commit", task |-> t]
    /\ UNCHANGED <<rootDeviceOnline, hostConfigurations, hostStorage,
                   hostCreated>>

\* deviceModelBuildDone: the task is taken from m_deviceBuildTasks, and
\* rootDeviceOnline is emitted for the tree of a task that committed.
DeviceModelBuildDone ==
    /\ \E t \in TaskIds :
        LET udn == m_deviceBuildTasks[t].udn
        IN /\ m_deviceBuildTasks[t].pc \in {"committed", "aborted"}
           /\ IF m_deviceBuildTasks[t].pc = "committed"
              THEN rootDeviceOnline' = [rootDeviceOnline EXCEPT ![udn] = @ + 1]
              ELSE UNCHANGED rootDeviceOnline
           /\ m_deviceBuildTasks' = [m_deviceBuildTasks EXCEPT ![t].pc = "done"]
           /\ buildOp' = [op |-> "buildDone", task |-> t]
    /\ UNCHANGED <<cpStorage, cpCommitted, hostConfigurations, hostStorage,
                   hostCreated>>

\* deviceExpired, or ssdp:byebye: the tree is taken out of the storage.
DeviceExpired ==
    /\ \E i \in 1..Len(cpStorage) :
        /\ cpStorage' = erase(cpStorage, i)
        /\ buildOp' = [op |-> "expired", udn |-> cpStorage[i]]
    /\ UNCHANGED <<m_deviceBuildTasks, rootDeviceOnline, cpCommitted,
                   hostConfigurations, hostStorage, hostCreated>>

\* HDeviceHostConfiguration::add, before init(): a configuration whose
\* description carries a UDN.
HostAddConfiguration ==
    /\ hostCreated = 0
    /\ Len(hostConfigurations) < MaxConfigs
    /\ \E udn \in Udns :
        hostConfigurations' = Append(hostConfigurations, udn)
    /\ buildOp' = [op |-> "add"]
    /\ UNCHANGED <<cpStorage, m_deviceBuildTasks, rootDeviceOnline,
                   cpCommitted, hostStorage, hostCreated>>

\* createRootDevices(): one turn of its foreach loop.  The tree built from
\* a configuration is handed to the device storage.
HostCreateRootDevice ==
    /\ hostCreated < Len(hostConfigurations)
    /\ hostStorage' =
           addRootDevice(hostStorage, hostConfigurations[hostCreated + 1])
    /\ hostCreated' = hostCreated + 1
    /\ buildOp' = [op |-> "createRootDevice"]
    /\ UNCHANGED <<cpStorage, m_deviceBuildTasks, rootDeviceOnline,
                   cpCommitted, hostConfigurations>>

(***************************************************************************)
(* The sequence numbers of the NOTIFY messages of one subscription.  The   *)
(* counter is a quint32; it is kept as two 16-bit halves so that its       *)
(* width is exact.                                                         *)
(***************************************************************************)
Half == 256 * 256

UInt(hi, lo) == [hi |-> hi, lo |-> lo]

\* ++ on a quint32.
increment(n) ==
    IF n.lo = Half - 1
    THEN UInt((n.hi + 1) % Half, 0)
    ELSE UInt(n.hi, n.lo + 1)

\* The mutated counter: it wraps to 0.
nextSeq_WrapsToZero(seq) == increment(seq)

\* ServiceEventSubscriber: the sequence number after seq; after 2^32 - 1
\* comes 1.
nextSeq(seq) ==
    IF increment(seq) = UInt(0, 0) THEN UInt(0, 1) ELSE increment(seq)

\* QString::number(quint32): the decimal digits, most significant first.
RECURSIVE digits(_)
digits(n) ==
    IF n = UInt(0, 0) THEN << >>
    ELSE LET low == (n.hi % 10) * Half + n.lo
         IN Append(digits(UInt(n.hi \div 10, low \div 10)), low % 10)

number(n) == IF n = UInt(0, 0) THEN <<0>> ELSE digits(n)

\* The counters the checked runs start from: a new subscription, and
\* subscriptions that have sent up to a carry or up to the wrap.
SeqStarts ==
    {UInt(0, 0)} \cup
    {UInt(h, Half - 1 - k) : h \in {0, 1, 2, Half - 2, Half - 1},
                             k \in 0..MaxNotifies}

VARIABLES
    m_seq,     \* the sequence number of the next message
    seqSent,   \* the SEQ headers of the messages sent, in order
    seqFresh   \* the subscription has sent no message before these

seqVars == <<m_seq, seqSent, seqFresh>>

\* A new subscription.
SeqInit ==
    /\ m_seq = UInt(0, 0)
    /\ seqSent = << >>
    /\ seqFresh = TRUE

\* A subscription at one of the starting counters.
SeqInitAny ==
    /\ m_seq \in SeqStarts
    /\ seqSent = << >>
    /\ seqFresh = (m_seq = UInt(0, 0))

\* HHttpHandler::send(MessagingInfo&, const NotifyRequest&): the SEQ header.
seqHeader(seq) == number(seq)

\* initialNotify: the first message of a subscription.
SeqInitialNotify ==
    /\ seqFresh
    /\ seqSent = << >>
    /\ seqSent' = <<seqHeader(m_seq)>>
    /\ m_seq' = nextSeq(m_seq)
    /\ UNCHANGED seqFresh

\* stateChanged: notify() on a subscriber that has sent its first message.
SeqNotify ==
    /\ ~seqFresh \/ seqSent # << >>
    /\ Len(seqSent) < MaxNotifies
    /\ seqSent' = Append(seqSent, seqHeader(m_seq))
    /\ m_seq' = nextSeq(m_seq)
    /\ UNCHANGED seqFresh

(***************************************************************************)
(* HDevice (upnp_device.h) and its disposal.  The header declares the      *)
(* accessors and states what each of them returns for a disposed object;   *)
(* the bodies are in upnp_device.cpp and in HDeviceController, which are   *)
(* not among the sources, so dispose() follows the specification: the      *)
(* device enters the terminal state and takes its embedded devices along.  *)
(*                                                                         *)
(* The tree is a root device with two embedded devices, one of which has   *)
(* an embedded device of its own.                                          *)
(***************************************************************************)
HDevices == {"root", "a", "b", "a1"}

NullDevice == "null"

\* The device tree as the description builder made it.
builtParent ==
    [d \in HDevices |->
        CASE d = "root" -> NullDevice
          [] d = "a" -> "root"
          [] d = "b" -> "root"
          [] d = "a1" -> "a"]

builtEmbedded == [d \in HDevices |-> {e \in HDevices : builtParent[e] = d}]

builtServices == [d \in HDevices |-> IF d = "b" THEN {} ELSE {d \o "/s"}]

DeviceLocations == {"http://h1", "http://h2"}

HDeviceMethods ==
    {"deviceInfo", "parentDevice", "deviceDescription", "embeddedDevices",
     "services", "serviceById", "locations", "isDisposed"}

VARIABLES
    hdevice,        \* the private data of each HDevice
    disposedCount,  \* how many times each device emitted disposed()
    hdeviceCall     \* the last accessor call and what it returned

devVars == <<hdevice, disposedCount, hdeviceCall>>

NoCall == [device |-> NullDevice]

DevInit ==
    /\ hdevice =
        [d \in HDevices |->
            [disposed |-> FALSE,
             deviceInfo |-> d,
             deviceDescription |-> "root.xml",
             parent |-> builtParent[d],
             embedded |-> builtEmbedded[d],
             services |-> builtServices[d],
             locations |-> {}]]
    /\ disposedCount = [d \in HDevices |-> 0]
    /\ hdeviceCall = NoCall

\* The accessors of upnp_device.h.
deviceInfo(dev) == dev.deviceInfo

deviceDescription(dev) == dev.deviceDescription

hparentDevice(dev) == IF dev.disposed THEN NullDevice ELSE dev.parent

embeddedDevices(dev) == IF dev.disposed THEN {} ELSE dev.embedded

services(dev) == IF dev.disposed THEN {} ELSE dev.services

serviceById(dev, serviceId) ==
    IF ~dev.disposed /\ serviceId \in dev.services THEN serviceId ELSE "null"

locations(dev) == IF dev.disposed THEN {} ELSE dev.locations

isDisposed(dev) == dev.disposed

\* The devices a disposal of d reaches: d and, through the embedded devices
\* of each device that is not yet disposed, its subtree.
RECURSIVE disposalOf(_, _)
disposalOf(devs, d) ==
    IF devs[d].disposed THEN {}
    ELSE {d} \cup UNION {disposalOf(devs, e) : e \in devs[d].embedded}

\* The mutated disposal leaves the embedded devices alone.
dispose_ThisOnly(devs, d) ==
    IF devs[d].disposed THEN {} ELSE {d}

dispose(devs, d) ==
    disposalOf(devs, d)

\* The orchestrator removes a device: the device and its embedded devices
\* are disposed, and each of them emits disposed().  Disposing a disposed
\* device does nothing.
DevDispose ==
    \E d \in HDevices :
        LET gone == dispose(hdevice, d) IN
        /\ hdevice' =
            [e \in HDevices |->
                IF e \in gone
                    THEN [hdevice[e] EXCEPT !.disposed = TRUE]
                    ELSE hdevice[e]]
        /\ disposedCount' =
            [e \in HDevices |->
                IF e \in gone THEN disposedCount[e] + 1
                ELSE disposedCount[e]]
        /\ UNCHANGED hdeviceCall

\* A device that is not disposed becomes available at one more location.
DevLocationFound ==
    \E d \in HDevices, l \in DeviceLocations :
        /\ ~hdevice[d].disposed
        /\ builtParent[d] = NullDevice
        /\ l \notin hdevice[d].locations
        /\ hdevice' = [hdevice EXCEPT ![d].locations = @ \cup {l}]
        /\ UNCHANGED <<disposedCount, hdeviceCall>>

\* What a call of an accessor returns.
returned(dev, method, serviceId) ==
    CASE method = "deviceInfo" -> <<deviceInfo(dev)>>
      [] method = "deviceDescription" -> <<deviceDescription(dev)>>
      [] method = "parentDevice" -> <<hparentDevice(dev)>>
      [] method = "embeddedDevices" -> <<embeddedDevices(dev)>>
      [] method = "services" -> <<services(dev)>>
      [] method = "serviceById" -> <<serviceById(dev, serviceId)>>
      [] method = "locations" -> <<locations(dev)>>
      [] method = "isDisposed" -> <<isDisposed(dev)>>

\* A user who holds a pointer to a device calls one of its accessors.
DevCall ==
    \E d \in HDevices, method \in HDeviceMethods :
        \E serviceId \in IF method = "serviceById"
                          THEN builtServices[d] \cup {"other/s"}
                          ELSE {"null"} :
            /\ hdeviceCall' =
                [device |-> d, method |-> method, serviceId |-> serviceId,
                 result |-> returned(hdevice[d], method, serviceId)]
            /\ UNCHANGED <<hdevice, disposedCount>>

(***************************************************************************)
(* EventNotifier::initialNotify(rc, mi), attempt by attempt: the message   *)
(* with SEQ 0 goes out over the connection of the SUBSCRIBE request when   *)
(* that is kept alive, and over a new connection when that was not tried   *)
(* or failed.  An attempt is a call of HHttpHandler::msgIO(mi, NotifyRequest),*)
(* which writes the request and then waits for the response.               *)
(***************************************************************************)
SocketStates == {"ConnectedState", "ClosingState", "UnconnectedState"}

\* What the subscriber has got of the request when an attempt ends: nothing
\* when the connection was refused, the whole request when it answered, and
\* either when no answer came in time.
gotRequest(outcome) ==
    CASE outcome.kind = "refused" -> {FALSE}
      [] outcome.kind = "timeout" -> BOOLEAN
      [] outcome.kind = "response" -> {TRUE}

VARIABLES
    notifyPc,    \* where initialNotify is
    notifyMi,    \* the MessagingInfo of the SUBSCRIBE request
    attempts,    \* the calls of ServiceEventSubscriber::initialNotify
    delivered,   \* how many requests with SEQ 0 the subscriber has got
    subscriberSeq   \* ServiceEventSubscriber::m_seq

inVars == <<notifyPc, notifyMi, attempts, delivered, subscriberSeq>>

\* The MessagingInfo the HTTP server made for the request: 5000 ms is the
\* default of receiveTimeoutForNoData.
MessagingInfos ==
    [keepAlive : BOOLEAN, socketState : {"ConnectedState", "UnconnectedState"},
     receiveTimeoutForNoData : {5000}]

\* No request yet.
NoMessagingInfo ==
    [keepAlive |-> FALSE, socketState |-> "UnconnectedState",
     receiveTimeoutForNoData |-> 5000]

InInit ==
    /\ notifyPc = "idle"
    /\ notifyMi = NoMessagingInfo
    /\ attempts = << >>
    /\ delivered = 0
    /\ subscriberSeq = 0

\* mi.keepAlive() && mi.socket().state() == QTcpSocket::ConnectedState
useSubscribingConnection(mi) ==
    mi.keepAlive /\ mi.socketState = "ConnectedState"

\* initialNotify is called for a new subscriber: getCurrentValues, the test
\* of the connection and mi.setReceiveTimeoutForNoData(3000).
InitialNotifyCalled ==
    /\ notifyPc = "idle"
    /\ attempts = << >>
    /\ \E mi \in MessagingInfos :
        IF useSubscribingConnection(mi)
        THEN /\ notifyMi' = [mi EXCEPT !.receiveTimeoutForNoData = 3000]
             /\ notifyPc' = "sameConnection"
        ELSE /\ notifyPc' = "disconnect"
             /\ notifyMi' = mi
    /\ UNCHANGED <<attempts, delivered, subscriberSeq>>

\* rc->initialNotify(msgBody, &mi): one msgIO over the connection of the
\* request; the subscriber counts the message when msgIO returns.  The
\* peer may have closed the connection by the time the call is back.
NotifySameConnection ==
    /\ notifyPc = "sameConnection"
    /\ \E outcome \in NotifyOutcomes :
       \E got \in gotRequest(outcome),
          after \in {"ConnectedState", "UnconnectedState"} :
        LET result == msgIO(outcome) IN
        /\ attempts' = Append(attempts,
               [connection |-> "subscribing", mi |-> notifyMi,
                outcome |-> outcome, result |-> result])
        /\ delivered' = delivered + (IF got THEN 1 ELSE 0)
        /\ IF result = "returned"
           THEN /\ subscriberSeq' = subscriberSeq + 1
                /\ notifyPc' = "returned"
                /\ UNCHANGED notifyMi
           ELSE /\ notifyPc' = "disconnect"
                /\ notifyMi' = [notifyMi EXCEPT !.socketState = after]
                /\ UNCHANGED subscriberSeq

\* if (mi.socket().state() == ConnectedState) disconnectFromHost();
NotifyDisconnect ==
    /\ notifyPc = "disconnect"
    /\ IF notifyMi.socketState = "ConnectedState"
       THEN \E after \in {"ClosingState", "UnconnectedState"} :
               notifyMi' = [notifyMi EXCEPT !.socketState = after]
       ELSE UNCHANGED notifyMi
    /\ notifyPc' = "newConnection"
    /\ UNCHANGED <<attempts, delivered, subscriberSeq>>

\* rc->initialNotify(msgBody): the subscriber sends the message over a
\* connection of its own.
NotifyNewConnection ==
    /\ notifyPc = "newConnection"
    /\ \E outcome \in NotifyOutcomes : \E got \in gotRequest(outcome) :
        LET result == msgIO(outcome) IN
        /\ attempts' = Append(attempts,
               [connection |-> "new", mi |-> notifyMi,
                outcome |-> outcome, result |-> result])
        /\ delivered' = delivered + (IF got THEN 1 ELSE 0)
        /\ subscriberSeq' =
            IF result = "returned" THEN subscriberSeq + 1 ELSE subscriberSeq
    /\ notifyPc' = "returned"
    /\ UNCHANGED notifyMi

(***************************************************************************)
(* The threads of the event subscription manager.  subscribe, cancel,      *)
(* remove, cancelAll and removeAll run on the thread that owns the manager *)
(* (cancel and remove assert it), onNotify runs on the threads of the HTTP *)
(* server; each of them takes m_subscribtionsMutex.  A step is what a      *)
(* thread does between two points at which another thread can run: taking  *)
(* the mutex, the work under the mutex, and for subscribe the invoked of      *)
(* sub->subscribe() after locker.unlock().  The services are two evented   *)
(* services of one device, and a subscription is known by its service.     *)
(***************************************************************************)
Threads == {"owner", "http1", "http2"}

LockServices == {"a", "b"}

OwnerOps ==
    [op : {"subscribe", "cancel", "remove"}, service : LockServices]
        \cup {[op |-> "cancelAll", service |-> "all"],
              [op |-> "removeAll", service |-> "all"]}

NotifyOps == [op : {"onNotify"}, service : LockServices]

Idle == [pc |-> "idle", op |-> "none", service |-> "none"]

VARIABLES
    m_subscribtionsMutex,  \* the thread that holds the mutex, or "free"
    subscriptions,         \* the status of the subscription object of each
                           \* service, "deleted" when there is none
    threads,               \* what each thread is doing
    lastUse                \* the last invoked on a subscription object

lockVars == <<m_subscribtionsMutex, subscriptions, threads, lastUse>>

LockInit ==
    /\ m_subscribtionsMutex = "free"
    /\ subscriptions = [s \in LockServices |-> "deleted"]
    /\ threads = [t \in Threads |-> Idle]
    /\ lastUse = [thread |-> "none"]

\* A invoked of a method of a subscription object by a thread: on a deleted
\* object the invoked is a use after free.
use(t, method, service) ==
    [thread |-> t, method |-> method, service |-> service,
     deleted |-> subscriptions[service] = "deleted"]

\* The owner calls an operation of the manager.
OwnerCalls ==
    /\ threads["owner"].pc = "idle"
    /\ \E invoked \in OwnerOps :
        threads' = [threads EXCEPT !["owner"] =
                        [pc |-> "lock", op |-> invoked.op,
                         service |-> invoked.service]]
    /\ UNCHANGED <<m_subscribtionsMutex, subscriptions, lastUse>>

\* A NOTIFY request reaches a thread of the HTTP server, which calls
\* onNotify with the callback id of the request.
NotifyArrives ==
    /\ \E t \in Threads \ {"owner"}, invoked \in NotifyOps :
        /\ threads[t].pc = "idle"
        /\ threads' = [threads EXCEPT ![t] =
                        [pc |-> "lock", op |-> invoked.op,
                         service |-> invoked.service]]
    /\ UNCHANGED <<m_subscribtionsMutex, subscriptions, lastUse>>

\* The mutated lock: a thread does not wait for the mutex.
mutexFree_NoWait == TRUE

\* QMutexLocker: a thread gets the mutex when no thread holds it.
mutexFree == m_subscribtionsMutex = "free"

\* QMutexLocker locker(&m_subscribtionsMutex)
Lock ==
    /\ \E t \in Threads :
        /\ threads[t].pc = "lock"
        /\ mutexFree
        /\ m_subscribtionsMutex' = t
        /\ threads' = [threads EXCEPT ![t].pc = "locked"]
    /\ UNCHANGED <<subscriptions, lastUse>>

\* What cancel(service, unsubscribe) and cancelAll make of a status: the
\* object is told to unsubscribe.
cancelled(status) ==
    CASE status = "Subscribed" -> "Unsubscribed"
      [] OTHER -> status

\* The owner's work under the mutex, up to the end of the scope of the
\* locker or to locker.unlock().
OwnerLocked ==
    /\ threads["owner"].pc = "locked"
    /\ LET invoked == threads["owner"]
           s == invoked.service
       IN CASE invoked.op = "subscribe" ->
                 IF subscriptions[s] = "Subscribed"
                 THEN \* return Sub_AlreadySubscribed
                      /\ threads' = [threads EXCEPT !["owner"] = Idle]
                      /\ UNCHANGED <<subscriptions, lastUse>>
                 ELSE \* the object found or created; locker.unlock()
                      /\ subscriptions' =
                            [subscriptions EXCEPT ![s] =
                                IF @ = "deleted" THEN "Unsubscribed" ELSE @]
                      /\ threads' = [threads EXCEPT !["owner"].pc = "use"]
                      /\ UNCHANGED lastUse
            [] invoked.op = "cancel" ->
                 /\ IF subscriptions[s] = "deleted"
                    THEN UNCHANGED <<subscriptions, lastUse>>
                    ELSE /\ lastUse' = use("owner", "unsubscribe", s)
                         /\ subscriptions' =
                               [subscriptions EXCEPT ![s] = cancelled(@)]
                 /\ threads' = [threads EXCEPT !["owner"] = Idle]
            [] invoked.op = "remove" ->
                 /\ subscriptions' = [subscriptions EXCEPT ![s] = "deleted"]
                 /\ threads' = [threads EXCEPT !["owner"] = Idle]
                 /\ UNCHANGED lastUse
            [] invoked.op = "cancelAll" ->
                 /\ subscriptions' =
                       [x \in LockServices |-> cancelled(subscriptions[x])]
                 /\ threads' = [threads EXCEPT !["owner"] = Idle]
                 /\ UNCHANGED lastUse
            [] invoked.op = "removeAll" ->
                 /\ subscriptions' = [x \in LockServices |-> "deleted"]
                 /\ threads' = [threads EXCEPT !["owner"] = Idle]
                 /\ UNCHANGED lastUse
    /\ m_subscribtionsMutex' =
          IF m_subscribtionsMutex = "owner" THEN "free"
          ELSE m_subscribtionsMutex

\* sub->subscribe(), after locker.unlock(): the SUBSCRIBE request goes out.
OwnerSubscribes ==
    /\ threads["owner"].pc = "use"
    /\ LET s == threads["owner"].service
       IN /\ lastUse' = use("owner", "subscribe", s)
          /\ subscriptions' =
                [subscriptions EXCEPT ![s] =
                    IF @ = "Unsubscribed" THEN "Subscribing" ELSE @]
    /\ threads' = [threads EXCEPT !["owner"] = Idle]
    /\ UNCHANGED m_subscribtionsMutex

\* onNotify under the mutex: m_subscribtionsByUuid.value(id); without a
\* subscription the request is ignored and the mutex released.
NotifyLookup ==
    /\ \E t \in Threads \ {"owner"} :
        /\ threads[t].pc = "locked"
        /\ IF subscriptions[threads[t].service] = "deleted"
           THEN /\ threads' = [threads EXCEPT ![t] = Idle]
                /\ m_subscribtionsMutex' =
                      IF m_subscribtionsMutex = t THEN "free"
                      ELSE m_subscribtionsMutex
           ELSE /\ threads' = [threads EXCEPT ![t].pc = "dispatch"]
                /\ UNCHANGED m_subscribtionsMutex
    /\ UNCHANGED <<subscriptions, lastUse>>

\* return sub->onNotify(mi, req); the locker goes out of scope.
NotifyDispatch ==
    /\ \E t \in Threads \ {"owner"} :
        /\ threads[t].pc = "dispatch"
        /\ lastUse' = use(t, "onNotify", threads[t].service)
        /\ threads' = [threads EXCEPT ![t] = Idle]
        /\ m_subscribtionsMutex' =
              IF m_subscribtionsMutex = t THEN "free"
              ELSE m_subscribtionsMutex
    /\ UNCHANGED subscriptions

\* The publisher answers a SUBSCRIBE request.
LockSubscribed ==
    /\ \E s \in LockServices :
        /\ subscriptions[s] = "Subscribing"
        /\ subscriptions' = [subscriptions EXCEPT ![s] = "Subscribed"]
    /\ UNCHANGED <<m_subscribtionsMutex, threads, lastUse>>

(***************************************************************************)
(* HDeviceInfo (hdeviceinfo.cpp): the constructor with the mandatory       *)
(* elements, the default constructor, a setter of an optional element and  *)
(* isValid.  HResourceType, HUdn and HDeviceInfoPrivate::setUdn are not    *)
(* part of the sources at hand.                                            *)
(***************************************************************************)
\* The resource types a caller passes: urn:<domain>:(device|service):
\* <type>:<version>, and the default constructed one.
NoResourceType == [urn |-> "", type |-> "Undefined"]

HResourceTypes ==
    {[urn |-> "urn:schemas-upnp-org:device:light:1",
      type |-> "StandardDeviceType"],
     [urn |-> "urn:herqq-org:device:light:1",
      type |-> "VendorSpecifiedDeviceType"],
     [urn |-> "urn:schemas-upnp-org:service:switch:1",
      type |-> "StandardServiceType"],
     [urn |-> "urn:herqq-org:service:switch:1",
      type |-> "VendorSpecifiedServiceType"],
     NoResourceType}

\* HResourceType::isValid
resourceTypeIsValid(resourceType) == resourceType.type # "Undefined"

\* The UDNs a caller passes: a UUID, a name that is no UUID, and the
\* default constructed one.
NoUdn == ""

HUdns == {"uuid:5d794fc2-5c5e-4460-a023-f04a51363300", "uuid:lamp", NoUdn}

HValidityCheckLevels == {"StrictChecks", "LooseChecks"}

\* HUdn::isValid(checkLevel): the strict check wants a UUID, the loose one
\* anything but nothing.
udnIsValid(udn, checkLevel) ==
    IF checkLevel = "StrictChecks"
    THEN udn = "uuid:5d794fc2-5c5e-4460-a023-f04a51363300"
    ELSE udn # NoUdn

\* The strings a caller passes for a name.
QStrings == {"", "herqq"}

\* HDeviceInfoPrivate::HDeviceInfoPrivate
DefaultInfo ==
    [m_deviceType |-> NoResourceType, m_friendlyName |-> "",
     m_manufacturer |-> "", m_modelName |-> "", m_modelNumber |-> "",
     m_udn |-> NoUdn]

NoErr == << >>

VARIABLES
    h_ptr,    \* HDeviceInfoPrivate* h_ptr of the object made last
    err,      \* the QString of the caller that err points to
    infoOp    \* the operation of the last step and its arguments

infoVars == <<h_ptr, err, infoOp>>

InfoInit ==
    /\ h_ptr = DefaultInfo
    /\ err = NoErr
    /\ infoOp = [op |-> "none"]

\* A setter of HDeviceInfoPrivate gives back whether it took the value and
\* the object as it is afterwards.
refused(tmp) == [ok |-> FALSE, tmp |-> tmp]

\* HDeviceInfoPrivate::setDeviceType
setDeviceType(tmp, deviceType) ==
    IF ~resourceTypeIsValid(deviceType)
    THEN refused(tmp)
    ELSE IF /\ deviceType.type # "StandardDeviceType"
            /\ deviceType.type # "VendorSpecifiedDeviceType"
    THEN refused(tmp)
    ELSE [ok |-> TRUE, tmp |-> [tmp EXCEPT !.m_deviceType = deviceType]]

\* HDeviceInfoPrivate::setFriendlyName
setFriendlyName(tmp, friendlyName) ==
    IF friendlyName = ""
    THEN refused(tmp)
    ELSE [ok |-> TRUE, tmp |-> [tmp EXCEPT !.m_friendlyName = friendlyName]]

\* HDeviceInfoPrivate::setManufacturer
setManufacturer(tmp, manufacturer) ==
    IF manufacturer = ""
    THEN refused(tmp)
    ELSE [ok |-> TRUE, tmp |-> [tmp EXCEPT !.m_manufacturer = manufacturer]]

\* HDeviceInfoPrivate::setModelName
setModelName(tmp, modelName) ==
    IF modelName = ""
    THEN refused(tmp)
    ELSE [ok |-> TRUE, tmp |-> [tmp EXCEPT !.m_modelName = modelName]]

\* HDeviceInfoPrivate::setModelNumber
setModelNumber(tmp, modelNumber) ==
    [ok |-> TRUE, tmp |-> [tmp EXCEPT !.m_modelNumber = modelNumber]]

\* HDeviceInfoPrivate::setUdn
setUdn(tmp, udn, checkLevel) ==
    IF ~udnIsValid(udn, checkLevel)
    THEN refused(tmp)
    ELSE [ok |-> TRUE, tmp |-> [tmp EXCEPT !.m_udn = udn]]

\* The mutated constructor: what the setters took is kept when a later
\* one refuses.
construct_NoRollback(deviceType, friendlyName, manufacturer, modelName, udn, checkLevel) ==
    LET t1 == setDeviceType(DefaultInfo, deviceType)
        t2 == setFriendlyName(t1.tmp, friendlyName)
        t3 == setManufacturer(t2.tmp, manufacturer)
        t4 == setModelName(t3.tmp, modelName)
        t5 == setUdn(t4.tmp, udn, checkLevel)
        errTmp ==
            IF ~t1.ok THEN <<"Invalid device type", deviceType.urn>>
            ELSE IF ~t2.ok THEN <<"Invalid friendly name", friendlyName>>
            ELSE IF ~t3.ok THEN <<"Invalid manufacturer", manufacturer>>
            ELSE IF ~t4.ok THEN <<"Invalid model name", modelName>>
            ELSE IF ~t5.ok THEN <<"Invalid UDN", udn>>
            ELSE NoErr
    IN [errTmp |-> errTmp, h_ptr |-> t5.tmp]

\* HDeviceInfo::HDeviceInfo(deviceType, friendlyName, manufacturer,
\* modelName, udn, checkLevel, err): the setters work on tmp, one after
\* the other until one refuses; tmp is copied to *h_ptr when none did.
construct(deviceType, friendlyName, manufacturer, modelName, udn, checkLevel) ==
    LET t1 == setDeviceType(DefaultInfo, deviceType)
        t2 == setFriendlyName(t1.tmp, friendlyName)
        t3 == setManufacturer(t2.tmp, manufacturer)
        t4 == setModelName(t3.tmp, modelName)
        t5 == setUdn(t4.tmp, udn, checkLevel)
        errTmp ==
            IF ~t1.ok THEN <<"Invalid device type", deviceType.urn>>
            ELSE IF ~t2.ok THEN <<"Invalid friendly name", friendlyName>>
            ELSE IF ~t3.ok THEN <<"Invalid manufacturer", manufacturer>>
            ELSE IF ~t4.ok THEN <<"Invalid model name", modelName>>
            ELSE IF ~t5.ok THEN <<"Invalid UDN", udn>>
            ELSE NoErr
    IN [errTmp |-> errTmp,
        h_ptr |-> IF errTmp # NoErr THEN DefaultInfo ELSE t5.tmp]

\* HDeviceInfo::isValid(level)
infoIsValid(info, level) ==
    /\ resourceTypeIsValid(info.m_deviceType)
    /\ udnIsValid(info.m_udn, level)

\* A caller makes an HDeviceInfo of the mandatory elements; it passes a
\* pointer to a string of its own for the error, or null.
InfoConstruct ==
    \E deviceType \in HResourceTypes, friendlyName \in QStrings,
       manufacturer \in QStrings, modelName \in QStrings, udn \in HUdns,
       checkLevel \in HValidityCheckLevels, errGiven \in BOOLEAN :
        LET made == construct(deviceType, friendlyName, manufacturer,
                              modelName, udn, checkLevel)
        IN /\ h_ptr' = made.h_ptr
           /\ err' = IF made.errTmp # NoErr /\ errGiven
                     THEN made.errTmp
                     ELSE err
           /\ infoOp' = [op |-> "construct", deviceType |-> deviceType,
                         friendlyName |-> friendlyName,
                         manufacturer |-> manufacturer,
                         modelName |-> modelName, udn |-> udn,
                         checkLevel |-> checkLevel, errGiven |-> errGiven]

\* HDeviceInfo::HDeviceInfo()
InfoDefault ==
    /\ h_ptr' = DefaultInfo
    /\ infoOp' = [op |-> "default"]
    /\ UNCHANGED err

\* HDeviceInfo::setModelNumber
InfoSetModelNumber ==
    /\ \E modelNumber \in QStrings :
        /\ h_ptr' = setModelNumber(h_ptr, modelNumber).tmp
        /\ infoOp' = [op |-> "setModelNumber", modelNumber |-> modelNumber]
    /\ UNCHANGED err

(***************************************************************************)
(* The specifications.                                                     *)
(***************************************************************************)
vars ==
    <<cfgVars, hostVars, subVars, lockVars, enVars, evVars, inVars, sendVars,
      recvVars, actVars, devVars, infoVars, buildVars, seqVars>>

\* What the steps of one component leave alone.
notHostVars ==
    <<cfgVars, subVars, lockVars, enVars, evVars, inVars, sendVars, recvVars,
      actVars, devVars, infoVars, buildVars, seqVars>>

notCfgVars ==
    <<hostVars, subVars, lockVars, enVars, evVars, inVars, sendVars,
      recvVars, actVars, devVars, infoVars, buildVars, seqVars>>

notSubVars ==
    <<cfgVars, hostVars, lockVars, enVars, evVars, inVars, sendVars,
      recvVars, actVars, devVars, infoVars, buildVars, seqVars>>

notEnVars ==
    <<cfgVars, hostVars, subVars, lockVars, evVars, inVars, sendVars,
      recvVars, actVars, devVars, infoVars, buildVars, seqVars>>

notBuildVars ==
    <<cfgVars, hostVars, subVars, lockVars, enVars, evVars, inVars, sendVars,
      recvVars, actVars, devVars, infoVars, seqVars>>

notSeqVars ==
    <<cfgVars, hostVars, subVars, lockVars, enVars, evVars, inVars, sendVars,
      recvVars, actVars, devVars, infoVars, buildVars>>

notEvVars ==
    <<cfgVars, hostVars, subVars, lockVars, inVars, sendVars, recvVars,
      actVars, devVars, infoVars, buildVars, seqVars>>

notSendVars ==
    <<cfgVars, hostVars, subVars, lockVars, enVars, evVars, inVars, recvVars,
      actVars, devVars, infoVars, buildVars, seqVars>>

notRecvVars ==
    <<cfgVars, hostVars, subVars, lockVars, enVars, evVars, inVars, sendVars,
      actVars, devVars, infoVars, buildVars, seqVars>>

notActVars ==
    <<cfgVars, hostVars, subVars, lockVars, enVars, evVars, inVars, sendVars,
      recvVars, devVars, infoVars, buildVars, seqVars>>

notDevVars ==
    <<cfgVars, hostVars, subVars, lockVars, enVars, evVars, inVars, sendVars,
      recvVars, actVars, infoVars, buildVars, seqVars>>

notInVars ==
    <<cfgVars, hostVars, subVars, lockVars, enVars, evVars, sendVars,
      recvVars, actVars, devVars, infoVars, buildVars, seqVars>>

notLockVars ==
    <<cfgVars, hostVars, subVars, enVars, evVars, inVars, sendVars, recvVars,
      actVars, devVars, infoVars, buildVars, seqVars>>

notInfoVars ==
    <<cfgVars, hostVars, subVars, lockVars, enVars, evVars, inVars, sendVars,
      recvVars, actVars, devVars, buildVars, seqVars>>

Init ==
    /\ CfgInit /\ HostInit /\ SubInit /\ EnInit /\ EvInit /\ SendInit
    /\ RecvInit /\ ActInit /\ DevInit /\ InInit /\ LockInit /\ InfoInit
    /\ BuildInit
    /\ SeqInit

\* The initial states of SpecSeq: a subscription at a starting counter.
InitSeq ==
    /\ CfgInit /\ HostInit /\ SubInit /\ EnInit /\ EvInit /\ SendInit
    /\ RecvInit /\ ActInit /\ DevInit /\ InInit /\ LockInit /\ InfoInit
    /\ BuildInit
    /\ SeqInitAny

\* Every step of the host leaves the configuration objects of SpecCfg alone.
Next ==
    \/ CallInit /\ UNCHANGED notHostVars
    \/ InitCall /\ UNCHANGED notHostVars
    \/ InitListen /\ UNCHANGED notHostVars
    \/ InitCreateRootDevices /\ UNCHANGED notHostVars
    \/ InitBind /\ UNCHANGED notHostVars
    \/ InitDoInit /\ UNCHANGED notHostVars
    \/ InitAnnounce /\ UNCHANGED notHostVars
    \/ InitStartNotifiers /\ UNCHANGED notHostVars
    \/ InitCheck /\ UNCHANGED notHostVars
    \/ InitFailReturn /\ UNCHANGED notHostVars
    \/ CallQuit /\ UNCHANGED notHostVars
    \/ QuitCall /\ UNCHANGED notHostVars
    \/ QuitStopNotifiers /\ UNCHANGED notHostVars
    \/ QuitByebye /\ UNCHANGED notHostVars
    \/ QuitReturn /\ UNCHANGED notHostVars
    \/ ClearClose /\ UNCHANGED notHostVars
    \/ ClearDrained /\ UNCHANGED notHostVars
    \/ ClearRelease /\ UNCHANGED notHostVars
    \/ ClearDeleteTree /\ UNCHANGED notHostVars
    \/ AnnouncementTimedout /\ UNCHANGED notHostVars
    \/ AnnouncementRestart /\ UNCHANGED notHostVars
    \/ TickSending /\ UNCHANGED notHostVars
    \/ TickWaiting /\ UNCHANGED notHostVars
    \/ RequestArrives /\ UNCHANGED notHostVars
    \/ ClientDone /\ UNCHANGED notHostVars
    \/ WorkerStarts /\ UNCHANGED notHostVars
    \/ WorkerDone /\ UNCHANGED notHostVars

Spec == Init /\ [][Next]_vars

\* Every step on a configuration object leaves the host alone.
NextCfg ==
    \/ CfgNewDevice /\ UNCHANGED notCfgVars
    \/ CfgSetCacheControlMaxAge /\ UNCHANGED notCfgVars
    \/ CfgSetPathToDeviceDescription /\ UNCHANGED notCfgVars
    \/ CfgSetDeviceCreator /\ UNCHANGED notCfgVars
    \/ CfgAdd /\ UNCHANGED notCfgVars
    \/ CfgSetIndividualAdvertisementCount /\ UNCHANGED notCfgVars
    \/ CfgClone /\ UNCHANGED notCfgVars

SpecCfg == Init /\ [][NextCfg]_vars

\* Every step of the subscription manager leaves the device host alone.
NextSub ==
    \/ Subscribe /\ UNCHANGED notSubVars
    \/ CancelDevice /\ UNCHANGED notSubVars
    \/ RemoveDevice /\ UNCHANGED notSubVars
    \/ CancelService /\ UNCHANGED notSubVars
    \/ RemoveService /\ UNCHANGED notSubVars
    \/ CancelAll /\ UNCHANGED notSubVars
    \/ RemoveAll /\ UNCHANGED notSubVars
    \/ OnNotify /\ UNCHANGED notSubVars
    \/ SubscribeOk /\ UNCHANGED notSubVars
    \/ SubscriptionFailed /\ UNCHANGED notSubVars
    \/ Unsubscribed /\ UNCHANGED notSubVars
    \/ RemoveRootDevice /\ UNCHANGED notSubVars

SpecSub == Init /\ [][NextSub]_vars

\* Every step of the event notifier leaves the rest alone.
NextNotifier ==
    \/ AddSubscriber /\ UNCHANGED notEnVars
    \/ RemoveSubscriber /\ UNCHANGED notEnVars
    \/ RenewSubscription /\ UNCHANGED notEnVars
    \/ StateChanged /\ UNCHANGED notEnVars
    \/ InitialNotify /\ UNCHANGED notEnVars
    \/ SubscriberExpires /\ UNCHANGED notEnVars
    \/ ShutdownSetFlag /\ UNCHANGED notEnVars
    \/ ShutdownClear /\ UNCHANGED notEnVars

SpecNotifier == Init /\ [][NextNotifier]_vars

\* Every step of a build task or of a storage leaves the rest alone.
NextBuild ==
    \/ ProcessDeviceDiscovery /\ UNCHANGED notBuildVars
    \/ TaskFetched /\ UNCHANGED notBuildVars
    \/ TaskCommit /\ UNCHANGED notBuildVars
    \/ DeviceModelBuildDone /\ UNCHANGED notBuildVars
    \/ DeviceExpired /\ UNCHANGED notBuildVars
    \/ HostAddConfiguration /\ UNCHANGED notBuildVars
    \/ HostCreateRootDevice /\ UNCHANGED notBuildVars

SpecBuild == Init /\ [][NextBuild]_vars

\* Every step on the event messages leaves the rest alone.
NextEvent ==
    \/ EvAddSubscriber /\ UNCHANGED notEvVars
    \/ EvInitialNotify /\ UNCHANGED notEvVars
    \/ EvValueChanged /\ UNCHANGED notEvVars
    \/ EvDeliver /\ UNCHANGED notEvVars

SpecEvent == Init /\ [][NextEvent]_vars

\* Every step of a send leaves the rest alone.
NextSend ==
    \/ Send /\ UNCHANGED notSendVars
    \/ SendWrite /\ UNCHANGED notSendVars
    \/ SendSizeLine /\ UNCHANGED notSendVars
    \/ SendChunk /\ UNCHANGED notSendVars
    \/ SendCrlf /\ UNCHANGED notSendVars
    \/ SendEof /\ UNCHANGED notSendVars
    \/ SendDone /\ UNCHANGED notSendVars

SpecSend == Init /\ [][NextSend]_vars

\* Every step of a receive leaves the rest alone.
NextReceive ==
    \/ Receive /\ UNCHANGED notRecvVars
    \/ ReceiveHeader /\ UNCHANGED notRecvVars
    \/ ReadRequestData /\ UNCHANGED notRecvVars
    \/ ReadSizeLine /\ UNCHANGED notRecvVars
    \/ ReadChunk /\ UNCHANGED notRecvVars
    \/ Spinning /\ UNCHANGED notRecvVars
    \/ HttpShutdown /\ UNCHANGED notRecvVars
    \/ PeerCloses /\ UNCHANGED notRecvVars
    \/ ReceiveDone /\ UNCHANGED notRecvVars

SpecReceive == Init /\ [][NextReceive]_vars

\* Every response to a failed action leaves the rest alone.
NextAction ==
    \/ ResponseActionFailed /\ UNCHANGED notActVars

SpecAction == Init /\ [][NextAction]_vars

\* Every message of the subscription leaves the rest alone.
NextSeq ==
    \/ SeqInitialNotify /\ UNCHANGED notSeqVars
    \/ SeqNotify /\ UNCHANGED notSeqVars

SpecSeq == InitSeq /\ [][NextSeq]_vars

\* Every step on the device tree leaves the rest alone.
NextDevice ==
    \/ DevDispose /\ UNCHANGED notDevVars
    \/ DevLocationFound /\ UNCHANGED notDevVars
    \/ DevCall /\ UNCHANGED notDevVars

SpecDevice == Init /\ [][NextDevice]_vars

\* The steps the host's thread takes inside quit() and clear().
QuitSteps ==
    \/ QuitCall \/ QuitStopNotifiers \/ QuitByebye \/ QuitReturn
    \/ ClearClose \/ ClearDrained \/ ClearRelease \/ ClearDeleteTree

\* The host under the assumptions of a terminating quit(): the host's
\* thread keeps running, every request in flight and every pool worker
\* finishes.
SpecQuit ==
    /\ Spec
    /\ WF_vars(QuitSteps /\ UNCHANGED notHostVars)
    /\ WF_vars(ClientDone /\ UNCHANGED notHostVars)
    /\ WF_vars(WorkerDone /\ UNCHANGED notHostVars)

\* Every step of an initial notify leaves the rest alone.
NextInitialNotify ==
    \/ InitialNotifyCalled /\ UNCHANGED notInVars
    \/ NotifySameConnection /\ UNCHANGED notInVars
    \/ NotifyDisconnect /\ UNCHANGED notInVars
    \/ NotifyNewConnection /\ UNCHANGED notInVars

SpecInitialNotify == Init /\ [][NextInitialNotify]_vars

\* Every step of a thread of the manager leaves the rest alone.
NextLock ==
    \/ OwnerCalls /\ UNCHANGED notLockVars
    \/ NotifyArrives /\ UNCHANGED notLockVars
    \/ Lock /\ UNCHANGED notLockVars
    \/ OwnerLocked /\ UNCHANGED notLockVars
    \/ OwnerSubscribes /\ UNCHANGED notLockVars
    \/ NotifyLookup /\ UNCHANGED notLockVars
    \/ NotifyDispatch /\ UNCHANGED notLockVars
    \/ LockSubscribed /\ UNCHANGED notLockVars

SpecLock == Init /\ [][NextLock]_vars

\* Every step on an HDeviceInfo leaves the rest alone.
NextInfo ==
    \/ InfoConstruct /\ UNCHANGED notInfoVars
    \/ InfoDefault /\ UNCHANGED notInfoVars
    \/ InfoSetModelNumber /\ UNCHANGED notInfoVars

SpecInfo == Init /\ [][NextInfo]_vars

(***************************************************************************)
(* Properties of the device host's life cycle.                             *)
(***************************************************************************)
\* The part of the host a rejected call must leave alone.
hostObjects == <<state, m_initParams, m_http, m_httpServer, m_ssdp,
                 m_eventNotifier, m_presenceAnnouncer, roots, activeClients,
                 activeThreads, log>>

\* init() has returned a failure after having entered Initializing.
InitFailed == pc = "idle" /\ call = "init" /\ failedStep # "none"

LogHas(e) == \E i \in 1..Len(log) : log[i].e = e

SpecEdges ==
    { <<"Uninitialized", "Initializing">>, <<"Initializing", "Initialized">>,
      <<"Initialized", "Exiting">>, <<"Exiting", "Uninitialized">> }

\* C1, as stated: the state of the host changes only along
\* Uninitialized -> Initializing -> Initialized -> Exiting -> Uninitialized,
\* also in an init() that fails.
C1_OnlySpecEdges ==
    [][state' # state => <<state, state'>> \in SpecEdges]_vars

\* C1, amended: the state of the host changes only along the four edges
\* above and along Initializing -> Exiting, the edge a failing init() takes
\* to unwind.
C1_OnlySpecEdgesOrUnwind ==
    [][state' # state =>
        <<state, state'>> \in SpecEdges \cup {<<"Initializing", "Exiting">>}]_vars

\* A failing init() is unwinding: the host is Exiting without ever having
\* been Initialized in this call.
C1_Witness ==
    /\ call = "init"
    /\ state = "Exiting"
    /\ failedStep = "bind"
    /\ pc = "clear_drain"

\* C2: when init() has failed after having entered Initializing, the host is
\* Uninitialized, the HTTP server, SSDP, the event notifier and the init
\* parameters are released, and the caller's errorString holds a non-empty
\* reason.
C2_FailedInitUnwoundWithReason ==
    InitFailed =>
        /\ state = "Uninitialized"
        /\ m_httpServer = "null"
        /\ m_ssdp = "null"
        /\ m_eventNotifier = "null"
        /\ m_initParams = <<>>
        /\ errorString \notin {"", CallerString}

\* The return code C3 gives for a failing step.
C3_CodeOf(step) ==
    CASE step = "listen"                    -> {"UndefinedFailure"}
      [] step = "bind"                      -> {"CommunicationsError"}
      [] step = "InvalidDeviceDescription"  -> {"InvalidDeviceDescription"}
      [] step = "InvalidServiceDescription" -> {"InvalidServiceDescription"}
      [] step = "HException"                -> {"UndefinedFailure"}
      [] step = "doInit" ->
            { r \in DoInitCodes \ {"Success"} : LogHas(DoInitReturned(r)) }

\* The steps of init() in the order of section 4.G; 0: no step of init().
InitRank(e) ==
    CASE e = "listen"           -> 1
      [] e = "createRootDevice" -> 2
      [] e = "bind"             -> 3
      [] e \in { DoInitReturned(r) : r \in DoInitCodes } -> 4
      [] e = "alive"            -> 5
      [] e = "startTimer"       -> 6
      [] e = "Initialized"      -> 7
      [] OTHER                  -> 0

\* The last step of init() that may have run when the given step failed.
C3_LastRank(step) ==
    CASE step = "listen" -> 0
      [] step = "bind"   -> 2
      [] step = "doInit" -> 4
      [] OTHER           -> 2

\* C3: a failing init() returns the code of the step that failed, and no
\* step of init() after the failing one has run.
C3_ReturnCodeOfFailingStep ==
    /\ InitFailed => rc \in C3_CodeOf(failedStep)
    /\ (call = "init" /\ failedStep # "none") =>
          \A i \in 1..Len(log) : InitRank(log[i].e) <= C3_LastRank(failedStep)

\* init() has returned CommunicationsError because SSDP could not be bound,
\* after the root devices had been created.
C3_Witness ==
    /\ InitFailed
    /\ failedStep = "bind"
    /\ rc = "CommunicationsError"
    /\ LogHas("createRootDevice")

\* C4: an init() that is rejected up front returns AlreadyInitialized on an
\* Initialized host and InvalidConfiguration for an empty configuration on
\* an Uninitialized host, and changes nothing of the host.
C4_RejectedInitChangesNothing ==
    [][(/\ pc = "init_called"
        /\ pc' # "init_called"
        /\ (state = "Initialized" \/ isEmpty(arg[1])))
       => /\ pc' = "idle"
          /\ rc' = IF state = "Initialized"
                   THEN "AlreadyInitialized" ELSE "InvalidConfiguration"
          /\ UNCHANGED hostObjects]_vars

\* init() has been rejected by an Initialized host whose timers run.
C4_Witness ==
    /\ pc = "idle"
    /\ call = "init"
    /\ rc = "AlreadyInitialized"
    /\ state = "Initialized"
    /\ \E d \in 1..Len(roots) : roots[d].timer > 0

\* C5, as stated: quit() on an Uninitialized host does nothing and returns
\* NotStarted.
C5_QuitReturnsNotStarted ==
    [][(pc = "quit_called" /\ pc' # "quit_called" /\ state = "Uninitialized")
       => /\ pc' = "idle"
          /\ rc' = "NotStarted"
          /\ UNCHANGED hostObjects]_vars

\* C5, amended: quit() on an Uninitialized host does nothing (no byebye, no
\* change of state, no hook) and returns no value: quit() is a void function.
C5_QuitOnUninitializedIsNoOp ==
    [][(pc = "quit_called" /\ pc' # "quit_called" /\ state = "Uninitialized")
       => /\ pc' = "idle"
          /\ rc' = "void"
          /\ UNCHANGED hostObjects]_vars

\* quit() has returned without having sent a byebye: every quit() of an
\* Initialized host sends one, so this one found the host Uninitialized; the
\* log is still that of the failed init() before it.
C5_Witness ==
    /\ pc = "idle"
    /\ call = "quit"
    /\ rc = "void"
    /\ state = "Uninitialized"
    /\ LogHas("deleteTree")
    /\ ~LogHas("byebye")

\* The entries of log come in a nondecreasing order of the given ranks.
InOrder(rank(_)) ==
    \A i \in 1..(Len(log) - 1) : rank(log[i].e) <= rank(log[i + 1].e)

\* For log entries of init(): steps of the unwinding come after all others.
C6_Rank(e) == IF InitRank(e) = 0 THEN 8 ELSE InitRank(e)

\* C6: init() runs its steps in the order HTTP server listening, root
\* devices created, SSDP bound, doInit, resources announced, timers started,
\* state Initialized; and an init() whose doInit did not return Success
\* emits no ssdp:alive and starts no announcement timer.
C6_InitOrder ==
    call = "init" =>
        /\ InOrder(C6_Rank)
        /\ \A j \in 1..Len(log) :
              InitRank(log[j].e) \in 5..7 =>
                 \E i \in 1..(j - 1) : log[i].e = DoInitReturned("Success")
        /\ (\E d \in 1..Len(roots) : roots[d].timer >= 0 \/ roots[d].since >= 0)
              => LogHas(DoInitReturned("Success"))
        /\ state = "Initialized" =>
              /\ LogHas("listen") /\ LogHas("bind")
              /\ \A d \in 1..Len(roots) :
                    /\ [e |-> "createRootDevice", d |-> d, open |-> FALSE]
                          \in { log[i] : i \in 1..Len(log) }
                    /\ Ev("startTimer", d) \in { log[i] : i \in 1..Len(log) }
                    /\ m_presenceAnnouncer[1] > 0 =>
                          Ev("alive", d) \in { log[i] : i \in 1..Len(log) }

\* init() has succeeded, the root devices announced twice each.
C6_Witness ==
    /\ pc = "idle"
    /\ call = "init"
    /\ state = "Initialized"
    /\ roots # <<>>
    /\ Cardinality({ i \in 1..Len(log) : log[i].e = "alive" }) = 2 * Len(roots)

\* The steps of quit() in the order of section 4.G, the steps not named
\* there ranked with their neighbours; 0: no step of quit().
QuitRank(e) ==
    CASE e = "stopTimer"     -> 1
      [] e = "byebye"        -> 2
      [] e = "httpClose"     -> 3
      [] e = "ssdpClose"     -> 3
      [] e = "drained"       -> 4
      [] e = "Uninitialized" -> 4
      [] e = "deleteTree"    -> 5
      [] e = "alive"         -> 0
      [] e = "startTimer"    -> 0
      [] OTHER               -> 3

\* quit() is shutting an Initialized host down, or has just done so: log is
\* the log of that quit().
QuitRunning ==
    call = "quit" /\ (state = "Exiting" \/ pc \in {"clear_deleteTree", "quit_return"})

C9_MaxAgeClamped ==
    /\ lastMaxAgeArg = -1 => cacheControlMaxAge(dc) = 1800
    /\ lastMaxAgeArg # -1 =>
          /\ (lastMaxAgeArg < 5) => cacheControlMaxAge(dc) = 5
          /\ (lastMaxAgeArg > 86400) => cacheControlMaxAge(dc) = 86400
          /\ (lastMaxAgeArg >= 5 /\ lastMaxAgeArg <= 86400)
                => cacheControlMaxAge(dc) = lastMaxAgeArg
    /\ \A c \in {dc} \cup { hc.collection[i] : i \in 1..Len(hc.collection) }
              \cup UNION { { hcClone[k].collection[i] :
                               i \in 1..Len(hcClone[k].collection) } :
                           k \in 1..Len(hcClone) } :
          cacheControlMaxAge(c) >= 5 /\ cacheControlMaxAge(c) <= 86400

\* setCacheControlMaxAge was last called with the largest argument, and a
\* configuration clamped from above is held by a host configuration.
C9_Witness ==
    /\ lastMaxAgeArg = BigUInt
    /\ cacheControlMaxAge(dc) = 86400
    /\ \E i \in 1..Len(hc.collection) : hc.collection[i].maxAge = 86400

\* C10: the individualAdvertisementCount of a host configuration and of its
\* clone is always in [1, 5].
C10_AdvertisementCountInRange ==
    /\ individualAdvertisementCount(hc) \in 1..5
    /\ \A k \in 1..Len(hcClone) :
          individualAdvertisementCount(hcClone[k]) \in 1..5

(***************************************************************************)
(* Properties of the event subscription manager.                           *)
(***************************************************************************)
\* The subscription objects there are.
liveSubs(o) == {p \in Ptrs : o[p] # NoSub}

\* The subscription objects there are for a service.
subsFor(o, service) == {p \in liveSubs(o) : o[p].service = service}

\* The manager's two indices.
indices == <<m_subscribtionsByUuid, m_subscriptionsByUdn>>

\* The devices below a device.
RECURSIVE descendants(_)
descendants(device) ==
    LET devices == Range(embeddedProxyDevices(device))
    IN devices \cup UNION {descendants(d) : d \in devices}

\* The devices a visit type selects.
selected(device, visitType) ==
    {device}
      \cup (IF visitType = "VisitThisAndDirectChildren"
            THEN Range(embeddedProxyDevices(device)) ELSE {})
      \cup (IF visitType = "VisitThisRecursively"
            THEN descendants(device) ELSE {})

\* The objects the last operation called a method on.
called(calls, method) ==
    {calls[i][2] : i \in {j \in 1..Len(calls) : calls[j][1] = method}}

\* C11: subscribe(service, timeout) has exactly these outcomes: the service
\* is not evented: NotEvented, nothing changed; a subscription of the
\* service is Subscribed: AlreadySubscribed, no request, nothing changed; a
\* subscription of the service has another status: subscribe re-issued on
\* that record, no record created, Success; no subscription of the service:
\* one record created and entered in both indices, subscribe issued,
\* Success.
C11_SubscribeOutcomes ==
    [][subOp'.op = "subscribe" =>
        LET service == subOp'.service
            old == subsFor(objs, service)
        IN \/ /\ ~isEvented(service)
              /\ subResult' = "Sub_Failed_NotEvented"
              /\ subCalls' = << >>
              /\ UNCHANGED <<objs, indices>>
           \/ /\ isEvented(service)
              /\ \E p \in old : objs[p].status = "Subscribed"
              /\ subResult' = "Sub_AlreadySubscribed"
              /\ subCalls' = << >>
              /\ UNCHANGED <<objs, indices>>
           \/ /\ isEvented(service)
              /\ old # {}
              /\ \A p \in old : objs[p].status # "Subscribed"
              /\ subResult' = "Sub_Success"
              /\ \E p \in old : subCalls' = <<<<"subscribe", p>>>>
              /\ liveSubs(objs') = liveSubs(objs)
              /\ UNCHANGED indices
           \/ /\ isEvented(service)
              /\ old = {}
              /\ subResult' = "Sub_Success"
              /\ \E p \in Ptrs \ liveSubs(objs) :
                    /\ liveSubs(objs') = liveSubs(objs) \cup {p}
                    /\ objs'[p].service = service
                    /\ subCalls' = <<<<"subscribe", p>>>>
                    /\ objs'[p].id \notin DOMAIN m_subscribtionsByUuid
                    /\ m_subscribtionsByUuid' =
                           hashInsert(m_subscribtionsByUuid, objs'[p].id, p)
                    /\ m_subscriptionsByUdn' =
                           hashInsert(m_subscriptionsByUdn, parentDevice(service),
                                      Append(subsOf(parentDevice(service)), p))
                    /\ \A q \in liveSubs(objs) : objs'[q] = objs[q]
    ]_vars

\* subscribe() has re-issued the subscribe of a subscription that was being
\* cancelled.
C11_Witness ==
    /\ subOp.op = "subscribe"
    /\ subResult = "Sub_Success"
    /\ \E p \in liveSubs(objs) :
          /\ subCalls = <<<<"subscribe", p>>>>
          /\ objs[p].status = "Unsubscribing"

\* C12: cancel(device, visit type, unsubscribe) reaches every subscription
\* of every device the visit type selects, also when the device itself
\* holds none: with unsubscribe an UNSUBSCRIBE is issued for each, without
\* it each is reset to Unsubscribed with no message.
C12_CancelReachesSelected ==
    [][subOp'.op = "cancel" =>
        LET ptrs == {p \in liveSubs(objs) :
                       parentDevice(objs[p].service) \in
                           selected(subOp'.device, subOp'.visitType)}
        IN IF subOp'.unsubscribe
           THEN called(subCalls', "unsubscribe") = ptrs
           ELSE /\ called(subCalls', "resetSubscription") = ptrs
                /\ called(subCalls', "unsubscribe") = {}
                /\ \A p \in ptrs : objs'[p].status = "Unsubscribed"
    ]_vars

\* The services of a device and of the devices below it.
inTree(service, device) ==
    parentDevice(service) \in {device} \cup descendants(device)

\* C13: after remove(device, recursive = true) no subscription of the
\* device or of a device below it is left in the sid index or in the udn
\* index; after remove(service) exactly the record of the service is gone
\* from both indices; cancel leaves both indices unchanged.
C13_RemoveLeavesNothing ==
    [][/\ (subOp'.op = "remove" /\ subOp'.recursive) =>
            /\ \A d \in {subOp'.device} \cup descendants(subOp'.device) :
                  ~(d \in DOMAIN m_subscriptionsByUdn')
            /\ \A id \in DOMAIN m_subscribtionsByUuid' :
                  ~inTree(objs[m_subscribtionsByUuid'[id]].service, subOp'.device)
       /\ subOp'.op = "removeService" =>
            LET gone == subsFor(objs, subOp'.service)
            IN /\ liveSubs(objs') = liveSubs(objs) \ gone
               /\ \A q \in liveSubs(objs') : objs'[q] = objs[q]
               /\ m_subscribtionsByUuid' =
                      hashRemove(m_subscribtionsByUuid, {objs[p].id : p \in gone})
               /\ \A d \in Devices :
                      Range(IF d \in DOMAIN m_subscriptionsByUdn'
                            THEN m_subscriptionsByUdn'[d] ELSE << >>)
                          = Range(subsOf(d)) \ gone
       /\ subOp'.op \in {"cancel", "cancelService", "cancelAll"} =>
            UNCHANGED indices
    ]_vars

\* C14: onNotify for a sid that is not in the sid index is rejected with
\* PreconditionFailed, goes to no subscription and changes none; for a
\* known sid it goes to exactly the subscription registered under the sid.
C14_NotifyGoesToRegistered ==
    [][subOp'.op = "onNotify" =>
        IF subOp'.id \in DOMAIN m_subscribtionsByUuid
        THEN subCalls' = <<<<"onNotify", m_subscribtionsByUuid[subOp'.id]>>>>
        ELSE /\ notifyResponse(subResult') = "PreconditionFailed"
             /\ subCalls' = << >>
             /\ UNCHANGED <<objs, indices>>
    ]_vars

\* A request with an unknown sid was rejected while subscriptions existed.
C14_Witness ==
    /\ subOp.op = "onNotify"
    /\ ~(subOp.id \in DOMAIN m_subscribtionsByUuid)
    /\ subResult = "false"
    /\ \E p \in liveSubs(objs) : objs[p].status = "Subscribed"

\* The subscription objects both indices hold.
registered(p) ==
    /\ \E id \in DOMAIN m_subscribtionsByUuid : m_subscribtionsByUuid[id] = p
    /\ \E d \in DOMAIN m_subscriptionsByUdn : p \in Range(m_subscriptionsByUdn[d])

\* C15: when a subscription reports failure it is reset to Unsubscribed and
\* subscriptionFailed is emitted once, for its service; its record stays in
\* both indices and no other subscription changes.  A later subscribe() for
\* the service re-issues the subscribe on the same record and returns
\* Success.
C15_FailureResetsOne ==
    [][/\ subOp'.op = "subscriptionFailed" =>
            LET p == subOp'.sub
                emits == {i \in 1..Len(subCalls') :
                             subCalls'[i][1] = "emit subscriptionFailed"}
            IN /\ objs'[p] = [objs[p] EXCEPT !.status = "Unsubscribed"]
               /\ Cardinality(emits) = 1
               /\ \A i \in emits : subCalls'[i][2] = objs[p].service
               /\ UNCHANGED indices
               /\ registered(p)
               /\ \A q \in Ptrs \ {p} : objs'[q] = objs[q]
       /\ (/\ subOp'.op = "subscribe"
           /\ \E p \in subsFor(objs, subOp'.service) :
                 objs[p].status = "Unsubscribed") =>
            /\ subResult' = "Sub_Success"
            /\ \E p \in subsFor(objs, subOp'.service) :
                  /\ subCalls' = <<<<"subscribe", p>>>>
                  /\ objs'[p] = [objs[p] EXCEPT !.status = "Subscribing"]
            /\ liveSubs(objs') = liveSubs(objs)
            /\ UNCHANGED indices
    ]_vars

\* A made subscription has reported failure while another subscription
\* was made.
C15_Witness ==
    /\ subOp.op = "subscriptionFailed"
    /\ objs[subOp.sub].status = "Unsubscribed"
    /\ registered(subOp.sub)
    /\ \E q \in liveSubs(objs) \ {subOp.sub} : objs[q].status = "Subscribed"

\* The operations that reset subscriptions without a message.
isLocalReset(op) ==
    \/ op.op \in {"cancel", "cancelService"} /\ ~op.unsubscribe
    \/ op.op \in {"removeRootDevice", "subscriptionFailed"}

\* The operations that call unsubscribe().
isUnsubscribe(op) ==
    \/ op.op \in {"cancel", "cancelService"} /\ op.unsubscribe
    \/ op.op = "cancelAll"

\* C16: the status of a subscription changes only along
\* Unsubscribed -> Subscribing on subscribe(), Subscribing -> Subscribed on
\* a 200 OK, Subscribing -> Unsubscribed on an error,
\* Subscribed -> Unsubscribing on unsubscribe(),
\* Unsubscribing -> Unsubscribed, and from any status to Unsubscribed on a
\* local reset; Subscribed is reached only by a subscribe response.
C16_StatusEdges ==
    [][\A p \in Ptrs :
        LET old == IF objs[p] = NoSub THEN "Unsubscribed" ELSE objs[p].status
        IN (objs'[p] # NoSub /\ objs'[p].status # old) =>
             LET new == objs'[p].status
             IN \/ /\ old = "Unsubscribed" /\ new = "Subscribing"
                   /\ subOp'.op = "subscribe"
                \/ /\ old = "Subscribing" /\ new = "Subscribed"
                   /\ subOp'.op = "subscribeOk"
                \/ /\ old = "Subscribed" /\ new = "Unsubscribing"
                   /\ isUnsubscribe(subOp')
                \/ /\ old = "Unsubscribing" /\ new = "Unsubscribed"
                   /\ subOp'.op = "unsubscribed"
                \/ /\ new = "Unsubscribed"
                   /\ isLocalReset(subOp')
    ]_vars

\* A 200 OK has made a subscription.
C16_Witness ==
    /\ subOp.op = "subscribeOk"
    /\ objs[subOp.sub].status = "Subscribed"

\* C17: when the control point removes a root device no UNSUBSCRIBE is
\* sent, and afterwards no service of the removed tree has a subscription
\* in a status other than Unsubscribed or a record left in the manager,
\* also when only embedded devices held subscriptions.
C17_RemovedTreeHasNoSubscription ==
    [][subOp'.op = "removeRootDevice" =>
        /\ called(subCalls', "unsubscribe") = {}
        /\ \A p \in liveSubs(objs') :
              inTree(objs'[p].service, 1) => objs'[p].status = "Unsubscribed"
        /\ \A id \in DOMAIN m_subscribtionsByUuid' :
              ~inTree(objs[m_subscribtionsByUuid'[id]].service, 1)
        /\ \A d \in {1} \cup descendants(1) :
              ~(d \in DOMAIN m_subscriptionsByUdn')
    ]_vars

(***************************************************************************)
(* Properties of the device build tasks and the device storages.           *)
(***************************************************************************)
\* No element of a list occurs in it twice.
NoDuplicates(list) ==
    \A i, j \in 1..Len(list) : i # j => list[i] # list[j]

\* The tasks for a UDN that have committed and not yet reported.
committedTasks(udn) ==
    {t \in TaskIds : /\ m_deviceBuildTasks[t].udn = udn
                     /\ m_deviceBuildTasks[t].pc = "committed"}

createdSubscribers == {s \in Sids : subscribers[s] # NoSubscriber}

decimalLess(a, b) ==
    \/ Len(a) < Len(b)
    \/ /\ Len(a) = Len(b)
       /\ \E i \in 1..Len(a) :
             /\ a[i] < b[i]
             /\ \A j \in 1..(i - 1) : a[j] = b[j]

\* 2^32 - 1, in decimal.
UIntMaxDecimal == <<4, 2, 9, 4, 9, 6, 7, 2, 9, 5>>

isCurrentValues(body, vals, service) ==
    /\ \A v \in StateVariables :
        (\E p \in body : p.name = v.name)
            <=> (v.scpdUrl = service.scpdUrl /\ v.eventingType # "NoEvents")
    /\ \A p \in body : p.value = vals[p.name]

C22_OnlyChangedInBody ==
    [][evOp'.op = "valueChanged" =>
        \A i \in 1..Len(evSent') :
            evSent'[i].body =
                {[name |-> evOp'.name, value |-> values'[evOp'.name]]}]_vars

\* The deliveries the specification counts as failed: the connection is
\* refused, the answer does not come in time, the status is not 2xx.
deliveryFailed(outcome) ==
    IF outcome.kind = "response"
    THEN outcome.statusCode < 200 \/ outcome.statusCode > 299
    ELSE TRUE

\* C23: a subscriber is marked expired by the delivery of a NOTIFY exactly
\* when the delivery fails, where every 2xx response is a success.
C23_ExpiredIffDeliveryFails ==
    [][evOp'.op = "deliver" =>
        (subscribers'[evOp'.sid].expired
            <=> deliveryFailed(evOp'.outcome))]_vars

\* C24: renewSubscription with the SID of an expired subscriber returns no
\* subscriber, and with an SID that is not in the list it returns none
\* and changes nothing.
C24_ExpiredNotRenewed ==
    [][enOp'.op = "renewSubscription" =>
        /\ (remoteClient(enOp'.sid) = 0
            \/ subscribers[enOp'.sid].expired) => enOp'.rc = 0
        /\ remoteClient(enOp'.sid) = 0 =>
            UNCHANGED <<m_remoteClients, subscribers>>]_vars

\* The number a sequence of decimal digits stands for.
RECURSIVE decimalValue(_)
decimalValue(s) ==
    IF s = << >> THEN 0
    ELSE decimalValue(SubSeq(s, 1, Len(s) - 1)) * 10 + hexValue(s[Len(s)])

C26_ChunkedRoundTrip ==
    (sendPc = "returned" /\ "Transfer-Encoding" \in DOMAIN sendHdr) =>
        readChunkedRequest(SubSeq(wire, endOfHdr + 1, Len(wire)), << >>)
            = [kind |-> "returned", body |-> sendBody]

\* C27: once the writes of a chunk have made no progress RetryLimit
\* times, sendChunked fails with a socket error: it writes nothing more,
\* does not move its position and does not return normally.
C27_NoProgressFails ==
    [][(sendPc \in {"sizeLine", "chunk", "crlf", "eof"}
            /\ errorThreshold >= RetryLimit) =>
        /\ sendPc' = "HSocketException"
        /\ wire' = wire
        /\ index' = index]_vars

\* receive is at work: in one of its loops.
receiving == recvPc \in {"header", "data", "sizeLine", "chunk", "spinning"}

\* C28: with the flag of shutdown() set, a receive does not stay in any
\* of its loops for longer than ShutdownGrace (and the wait of one turn):
\* it has stopped by then.
C28_ShutdownStopsReceive ==
    (m_shuttingDown # 0 /\ receiving) =>
        sinceShutdown <= ShutdownGrace + ReadWait

\* C29: when receive returns a body whose length the header or the
\* chunks give, the body is complete.
C29_NeverTruncated ==
    (recvPc = "returned" /\ recvIn.framing \in {"Content-Length", "chunked"})
        => retVal = recvIn.size

\* The error table: the status of the response for each code of HAction.
ErrorTable ==
    {<<"InvalidArgs", 402>>, <<"ActionFailed", 501>>,
     <<"ArgumentValueInvalid", 600>>, <<"ArgumentValueOutOfRange", 601>>,
     <<"OptionalActionNotImplemented", 602>>, <<"OutOfMemory", 603>>,
     <<"HumanInterventionRequired", 604>>, <<"StringArgumentTooLong", 605>>}

\* C30: the response to a failed action has the status the error table
\* gives for the code of the action, and the code itself as status for
\* every other code; its fault code is Client, its errorCode is the code
\* and its errorDescription the description of the action.
C30_ActionErrorMapping ==
    httpResponse # NoResponse =>
        /\ \A row \in ErrorTable :
            httpResponse.actionErrCode = HActionCodes[row[1]] =>
                httpResponse.statusCode = row[2]
        /\ (\A row \in ErrorTable :
                httpResponse.actionErrCode # HActionCodes[row[1]]) =>
                httpResponse.statusCode = httpResponse.actionErrCode
        /\ httpResponse.faultCode = "Client"
        /\ httpResponse.errorCode = httpResponse.actionErrCode
        /\ httpResponse.errorDescription = httpResponse.description

\* An action failed with ActionFailed and a description: it is answered
\* with 501.
C30_Witness ==
    /\ httpResponse # NoResponse
    /\ httpResponse.actionErrCode = HActionCodes.ActionFailed
    /\ httpResponse.statusCode = 501
    /\ httpResponse.errorDescription = "no such object"


(***************************************************************************)
(* Properties of HDevice.                                                  *)
(***************************************************************************)
\* What the header promises for a call on a disposed device.
disposedResult(hcall) ==
    CASE hcall.method = "deviceInfo" -> <<hcall.device>>
      [] hcall.method = "deviceDescription" -> <<"root.xml">>
      [] hcall.method = "parentDevice" -> <<NullDevice>>
      [] hcall.method = "serviceById" -> <<"null">>
      [] hcall.method = "isDisposed" -> <<TRUE>>
      [] OTHER -> <<{}>>

\* C31: disposal is terminal: a disposed device stays disposed, it has
\* emitted disposed() exactly once, its embedded devices are disposed with
\* it, and a call on a disposed device returns no embedded devices, no
\* services, no locations, no service by id and no parent device, but still
\* the device information and the device description it was built with.
C31_DisposalTerminal ==
    [][/\ \A d \in HDevices :
            /\ hdevice[d].disposed => hdevice'[d].disposed
            /\ disposedCount'[d] = IF hdevice'[d].disposed THEN 1 ELSE 0
            /\ hdevice'[d].disposed =>
                \A e \in builtEmbedded[d] : hdevice'[e].disposed
       /\ (hdeviceCall' # hdeviceCall
            /\ hdevice[hdeviceCall'.device].disposed) =>
                hdeviceCall'.result = disposedResult(hdeviceCall')
      ]_vars

C31_Witness ==
    /\ hdeviceCall # NoCall
    /\ hdeviceCall.device = "a"
    /\ hdeviceCall.method = "embeddedDevices"
    /\ hdeviceCall.result = <<{}>>
    /\ hdevice["a"].disposed
    /\ hdevice["a1"].disposed
    /\ disposedCount["a1"] = 1
    /\ hdevice["root"].disposed
    /\ disposedCount["a"] = 1


\* C32: quit() terminates: when every request in flight and every pool
\* worker finishes, a host that is Exiting leaves the while loop of
\* doClear() and becomes Uninitialized; and no host is Uninitialized while
\* the HTTP server has an active client or the pool an active thread.
C32_QuitTerminates ==
    /\ (state = "Exiting") ~> (state = "Uninitialized")
    /\ [](state = "Uninitialized" => activeClients = 0 /\ activeThreads = 0)

\* quit() is in the while loop of doClear() with a request in flight and a
\* pool worker active.
C32_Witness ==
    /\ call = "quit"
    /\ state = "Exiting"
    /\ pc = "clear_drain"
    /\ activeClients > 0
    /\ activeThreads > 0


\* What an UNSUBSCRIBE with a sid does to the list and to the subscribers
\* when it removes, and when it does not.
removedOne(sid) ==
    /\ enResult' = "true"
    /\ m_remoteClients' = SelectSeq(m_remoteClients, LAMBDA s : s # sid)
    /\ Len(m_remoteClients') = Len(m_remoteClients) - 1
    /\ subscribers'[sid].expired
    /\ \A s \in Sids \ {sid} : subscribers'[s] = subscribers[s]

removedNone ==
    /\ enResult' = "false"
    /\ UNCHANGED <<m_remoteClients, subscribers>>

\* A request with a sid that is not in the list fails: a second UNSUBSCRIBE
\* and a renewal after a removal are such requests.
absentFails ==
    (/\ enOp'.op \in {"removeSubscriber", "renewSubscription"}
     /\ ~contains(m_remoteClients, enOp'.sid)) =>
        /\ enResult' \in {"false", "null"}
        /\ UNCHANGED <<m_remoteClients, subscribers>>

\* C33 as stated: removeSubscriber with a sid of the list expires and
\* removes that subscriber alone and returns true, with another sid it
\* returns false and changes nothing, and after a removal a second
\* UNSUBSCRIBE or a renewal with the sid fails.
C33_UnsubscribeRemovesOne ==
    [][/\ enOp'.op = "removeSubscriber" =>
            IF contains(m_remoteClients, enOp'.sid)
            THEN removedOne(enOp'.sid)
            ELSE removedNone
       /\ absentFails]_vars

\* C33 as the code has it: the same, except that an UNSUBSCRIBE that finds
\* shutdown() begun (m_shutdown set) returns false and changes nothing,
\* whether the sid is in the list or not.
C33_UnsubscribeRemovesOneUnlessShutdown ==
    [][/\ enOp'.op = "removeSubscriber" =>
            IF contains(m_remoteClients, enOp'.sid)
            THEN \/ removedOne(enOp'.sid)
                 \/ m_shutdown /\ removedNone
            ELSE removedNone
       /\ absentFails]_vars

\* An UNSUBSCRIBE has removed the first of two subscribers.
C33_Witness ==
    /\ enOp.op = "removeSubscriber"
    /\ enResult = "true"
    /\ ~contains(m_remoteClients, enOp.sid)
    /\ subscribers[enOp.sid].expired
    /\ Len(m_remoteClients) = 1
    /\ ~subscribers[m_remoteClients[1]].expired
    /\ m_remoteClients[1] > enOp.sid


(***************************************************************************)
(* Properties of the initial notify.                                       *)
(***************************************************************************)
\* The attempts of an initial notify are as the claim has them: at most
\* two, the connection of the request first and only when it is kept alive
\* and connected, with 3000 ms for the answer, a new connection only when
\* the first attempt was not made or failed and the connection of the
\* request is no longer connected.
attemptsInOrder ==
    /\ Len(attempts) <= 2
    /\ \A i \in 1..Len(attempts) :
        LET a == attempts[i] IN
        /\ a.connection = "subscribing" =>
            /\ i = 1
            /\ a.mi.keepAlive
            /\ a.mi.socketState = "ConnectedState"
            /\ a.mi.receiveTimeoutForNoData = 3000
        /\ a.connection = "new" =>
            /\ i = Len(attempts)
            /\ i = 2 =>
                /\ attempts[1].connection = "subscribing"
                /\ attempts[1].result # "returned"
            /\ a.mi.socketState # "ConnectedState"

\* C34: initialNotify makes at most two attempts, the first over the
\* connection of the request only when that is kept alive and connected,
\* the second over a new connection only when the first was not made or
\* failed and after the connection of the request is disconnected, and the
\* subscriber gets the message with SEQ 0 at most once.
C34_TwoAttemptsOneDelivery ==
    /\ attemptsInOrder
    /\ delivered <= 1


(***************************************************************************)
(* Properties of the indices of the event subscription manager.            *)
(***************************************************************************)
\* How many times a subscription is in a list.
occurrences(list, p) == Cardinality({i \in 1..Len(list) : list[i] = p})

\* C35: the two indices of the manager agree: every subscription of the sid
\* index is a live object registered under its own id and is in exactly
\* one list of the udn index, once, the list of the parent device of its
\* service; every subscription of a list of the udn index is in the sid
\* index under its id; and no list of the udn index is empty.
C35_IndicesAgree ==
    /\ \A id \in DOMAIN m_subscribtionsByUuid :
        LET p == m_subscribtionsByUuid[id] IN
        /\ objs[p] # NoSub
        /\ objs[p].id = id
        /\ \A udn \in Devices :
            occurrences(subsOf(udn), p) =
                IF udn = parentDevice(objs[p].service) THEN 1 ELSE 0
    /\ \A udn \in DOMAIN m_subscriptionsByUdn :
        LET subs == m_subscriptionsByUdn[udn] IN
        /\ subs # << >>
        /\ \A i \in 1..Len(subs) :
            /\ objs[subs[i]] # NoSub
            /\ byUuid(objs[subs[i]].id) = subs[i]

\* A removal has left a device with one of its two subscriptions, next to
\* the subscription of another device.
C35_Witness ==
    /\ subOp.op = "removeService"
    /\ subResult = "true"
    /\ Cardinality(DOMAIN m_subscribtionsByUuid) = 2
    /\ Cardinality(DOMAIN m_subscriptionsByUdn) = 2
    /\ hasSubs(parentDevice(subOp.service))

\* C36: the manager never holds two subscription objects for one service,
\* whatever the status of the subscription at a repeated subscribe.
C36_OneRecordPerService ==
    /\ \A service \in Services : Cardinality(subsFor(objs, service)) <= 1
    /\ liveSubs(objs) =
          {m_subscribtionsByUuid[id] : id \in DOMAIN m_subscribtionsByUuid}

\* subscribe was repeated on a service whose subscription was not
\* Subscribed: the request went out again on the one object there is.
C36_Witness ==
    /\ subOp.op = "subscribe"
    /\ subResult = "Sub_Success"
    /\ Cardinality(subsFor(objs, subOp.service)) = 1
    /\ subCalls # << >>
    /\ objs[subCalls[1][2]].status = "Unsubscribing"
    /\ Len(subsOf(parentDevice(subOp.service))) = 2


(***************************************************************************)
(* Properties of the threads of the event subscription manager.            *)
(***************************************************************************)
\* C37: under every interleaving of onNotify on the threads of the HTTP
\* server with subscribe, cancel, remove, cancelAll and removeAll on the
\* owner's thread, no method is called on a deleted subscription object:
\* a thread that has looked an object up and is about to call it finds it
\* alive, and the work under the mutex is done by one thread at a time.
C37_NoUseOfDeleted ==
    /\ lastUse.thread # "none" => ~lastUse.deleted
    /\ \A t \in Threads :
        /\ threads[t].pc \in {"dispatch", "use"} =>
              subscriptions[threads[t].service] # "deleted"
        /\ threads[t].pc \in {"locked", "dispatch"} =>
              m_subscribtionsMutex = t

\* A notification was dispatched while the owner waited for the mutex to
\* remove the subscription it went to.
C37_Witness ==
    /\ lastUse.thread = "http1"
    /\ lastUse.method = "onNotify"
    /\ threads["http1"].pc = "idle"
    /\ threads["owner"].pc = "lock"
    /\ threads["owner"].op = "remove"
    /\ threads["owner"].service = lastUse.service
    /\ subscriptions[lastUse.service] = "Subscribed"
    /\ threads["http2"].pc = "lock"


(***************************************************************************)
(* Properties of addSubscriber of the event notifier.                      *)
(***************************************************************************)
\* A request repeats a subscriber of the list: one of its callback URLs is
\* the location of a subscriber of the service it names.
repeats(sreq) ==
    \E i \in 1..Len(m_remoteClients) :
        LET client == subscribers[m_remoteClients[i]]
        IN /\ isSameService(client.service, sreq.service)
           /\ contains(sreq.callbacks, client.location)

\* No two subscribers of the list have the same service and the same
\* location.
noTwoAlike ==
    \A i, j \in 1..Len(m_remoteClients) :
        LET one == subscribers[m_remoteClients[i]]
            other == subscribers[m_remoteClients[j]]
        IN i # j => ~(/\ isSameService(one.service, other.service)
                      /\ one.location = other.location)

\* C38: the list of subscribers never holds two subscribers with the same
\* service (same UDN of the parent device, same SCPD URL) and the same
\* callback location: addSubscriber returns no subscriber and leaves the
\* list as it is when a callback URL of the request is the location of a
\* subscriber of that service, and otherwise appends exactly one
\* subscriber, whose location is the first callback URL of the request.
C38_NoTwoSubscribersAlike ==
    /\ []noTwoAlike
    /\ [][enOp'.op = "addSubscriber" =>
            IF repeats(enOp'.sreq)
            THEN /\ enResult' = "null"
                 /\ m_remoteClients' = m_remoteClients
            ELSE /\ enResult' = "rc"
                 /\ m_remoteClients' = Append(m_remoteClients, enOp'.rc)
                 /\ subscribers[enOp'.rc] = NoSubscriber
                 /\ isSameService(subscribers'[enOp'.rc].service,
                                  enOp'.sreq.service)
                 /\ subscribers'[enOp'.rc].location =
                        enOp'.sreq.callbacks[1]
       ]_vars

\* C39: a SUBSCRIBE to a service that is not evented is accepted:
\* addSubscriber returns a subscriber whose timeout is 24 hours whatever
\* timeout was asked for, and no change notification is ever sent to it; a
\* SUBSCRIBE to an evented service is granted the timeout it asked for.
C39_NotEventedGetsOneDay ==
    /\ [][/\ enOp'.op = "addSubscriber"
          /\ shutdownPc = "idle"
          /\ ~m_shutdown
          /\ ~repeats(enOp'.sreq)
          => /\ enResult' = "rc"
             /\ subscribers'[enOp'.rc].timeout =
                    IF enOp'.sreq.service.isEvented
                    THEN enOp'.sreq.timeout
                    ELSE 60 * 60 * 24
       ]_vars
    /\ [][enOp'.op = "stateChanged" =>
            \A i \in 1..Len(enSent') :
                subscribers[enSent'[i]].service.isEvented
       ]_vars


(***************************************************************************)
(* Properties of HDeviceInfo.                                              *)
(***************************************************************************)
\* The first of the mandatory elements that the arguments of a call of
\* the constructor get wrong, in the order device type, friendly name,
\* manufacturer, model name, UDN; "" when they are all right.
firstFailing(args) ==
    IF args.deviceType.type \notin
           {"StandardDeviceType", "VendorSpecifiedDeviceType"}
    THEN "Invalid device type"
    ELSE IF args.friendlyName = "" THEN "Invalid friendly name"
    ELSE IF args.manufacturer = "" THEN "Invalid manufacturer"
    ELSE IF args.modelName = "" THEN "Invalid model name"
    ELSE IF ~udnIsValid(args.udn, args.checkLevel) THEN "Invalid UDN"
    ELSE ""

\* C40: the constructor of HDeviceInfo takes the mandatory elements all or
\* not at all: when the device type is no valid device resource type, or
\* the friendly name, the manufacturer or the model name is empty, or the
\* UDN is not valid at the check level given, the object keeps every field
\* at its default, isValid() is false and err names the first element of
\* that order that failed; so every HDeviceInfo for which isValid() is
\* true has a friendly name, a manufacturer and a model name.
C40_ConstructAllOrNothing ==
    /\ [][infoOp'.op = "construct" /\ firstFailing(infoOp') # "" =>
            /\ h_ptr' = DefaultInfo
            /\ \A level \in HValidityCheckLevels : ~infoIsValid(h_ptr', level)
            /\ infoOp'.errGiven =>
                  /\ err' # NoErr
                  /\ err'[1] = firstFailing(infoOp')
       ]_vars
    /\ [](\A level \in HValidityCheckLevels :
            infoIsValid(h_ptr, level) =>
                /\ h_ptr.m_friendlyName # ""
                /\ h_ptr.m_manufacturer # ""
                /\ h_ptr.m_modelName # "")

\* The constructor was given a device type and a friendly name but no
\* manufacturer: the object has not kept the two, and err names the
\* manufacturer.
C40_Witness ==
    /\ infoOp.op = "construct"
    /\ firstFailing(infoOp) = "Invalid manufacturer"
    /\ infoOp.modelName # ""
    /\ infoOp.errGiven
    /\ h_ptr = DefaultInfo
    /\ err = <<"Invalid manufacturer", "">>

====
